---- MODULE Spec2Model ----
(***************************************************************************)
(* A model of the agent-coordination substrate of the AIDAM memory plugin. *)
(*                                                                         *)
(*   SpecHandoff    the SessionStart injector (scripts/inject_state.py)    *)
(*                  racing over the orchestrator_state rows;               *)
(*   SpecMerge      the pure merge of retriever results (_merge_results);  *)
(*   SpecRetrieval  the UserPromptSubmit hook and the aidam_retrieve tool  *)
(*                  polling retrieval_inbox while retrievers reply;        *)
(*   SpecHooks      the hook adapters and the cognitive_inbox rows they    *)
(*                  write;                                                 *)
(*   SpecTools      the generated-tool registry and its path check;        *)
(*   SpecCompact    emergency compaction and tail refresh;                 *)
(*   SpecContext    the context the SessionStart injector assembles;       *)
(*   SpecReader     the session controller's buffer and session_read;      *)
(*   SpecIdle       idle framing of session_send;                          *)
(*   SpecMigration  scoped migrations (mcp/memory_pg.py);                  *)
(*   SpecServer     the tools of the aidam server that need a running      *)
(*                  orchestrator, and triggered compaction;                *)
(*   SpecPlan       the active plan in the refreshed tail;                 *)
(*   SpecPayload    the payload of a tool_use job (on_tool_use.py);        *)
(*   SpecSession    the session controller's children, reader threads and  *)
(*                  session_stop (mcp/session_controller.py);              *)
(*   SpecKeys       the key names of session_send_keys;                    *)
(*   SpecInbox      calls that consume retrieval_inbox at the same time    *)
(*                  and database errors inside them.                       *)
(*                                                                         *)
(* Every database statement that the code commits on its own is one step;  *)
(* purely local computation is folded into the statement that precedes it. *)
(***************************************************************************)
EXTENDS Integers, Sequences, FiniteSets, TLC

VARIABLES orch, marker, inj,
          mIn, mOut,
          clock, jobs, inbox, cons,
          cinbox, hk,
          tools, kindex, launched, tl,
          sstate, tailf, ec,
          ctx,
          sess, rd,
          wnow, pty, wbuf, snd,
          mig,
          srv, sver,
          plan,
          pl,
          sessions, child, reader, call, snow,
          ks

hvars == <<orch, marker, inj>>
mvars == <<mIn, mOut>>
rvars == <<clock, jobs, inbox, cons>>
kvars == <<cinbox, hk>>
tvars == <<tools, kindex, launched, tl>>
cvars == <<sstate, tailf, ec>>
ivars == <<ctx>>
svars == <<sess, rd>>
wvars == <<wnow, pty, wbuf, snd>>
gvars == <<mig>>
qvars == <<srv, sver>>
pvars == <<plan>>
uvars == <<pl>>
yvars == <<sessions, child, reader, call, snow>>
nvars == <<ks>>
xvars == <<kvars, tvars, cvars, ivars, svars, wvars, gvars, qvars, pvars, uvars, yvars, nvars>>
vars == <<orch, marker, inj, mIn, mOut, clock, jobs, inbox, cons, cinbox, hk,
          tools, kindex, launched, tl,
          sstate, tailf, ec,
          ctx,
          sess, rd,
          wnow, pty, wbuf, snd,
          mig,
          srv, sver,
          plan,
          pl,
          sessions, child, reader, call, snow,
          ks>>

\* what the steps of one component leave alone
kOthers == <<hvars, mvars, rvars, tvars, cvars, ivars, svars, wvars, gvars, qvars, pvars, uvars, yvars, nvars>>
tOthers == <<hvars, mvars, rvars, kvars, cvars, ivars, svars, wvars, gvars, qvars, pvars, uvars, yvars, nvars>>
cOthers == <<hvars, mvars, rvars, kvars, tvars, ivars, svars, wvars, gvars, qvars, pvars, uvars, yvars, nvars>>
iOthers == <<hvars, mvars, rvars, kvars, tvars, cvars, svars, wvars, gvars, qvars, pvars, uvars, yvars, nvars>>
sOthers == <<hvars, mvars, rvars, kvars, tvars, cvars, ivars, wvars, gvars, qvars, pvars, uvars, yvars, nvars>>
wOthers == <<hvars, mvars, rvars, kvars, tvars, cvars, ivars, svars, gvars, qvars, pvars, uvars, yvars, nvars>>
gOthers == <<hvars, mvars, rvars, kvars, tvars, cvars, ivars, svars, wvars, qvars, pvars, uvars, yvars, nvars>>
qOthers == <<hvars, mvars, rvars, kvars, tvars, cvars, ivars, svars, wvars, gvars, pvars, uvars, yvars, nvars>>
kqOthers == <<hvars, mvars, rvars, tvars, cvars, ivars, svars, wvars, gvars, pvars, uvars, yvars, nvars>>
pOthers == <<hvars, mvars, rvars, kvars, tvars, cvars, ivars, svars, wvars, gvars, qvars, uvars, yvars, nvars>>
uOthers == <<hvars, mvars, rvars, kvars, tvars, cvars, ivars, svars, wvars, gvars, qvars, pvars, yvars, nvars>>
yOthers == <<hvars, mvars, rvars, kvars, tvars, cvars, ivars, svars, wvars, gvars, qvars, pvars, uvars, nvars>>
nOthers == <<hvars, mvars, rvars, kvars, tvars, cvars, ivars, svars, wvars, gvars, qvars, pvars, uvars, yvars>>

None == "<none>"

(***************************************************************************)
(* Bounds of the model.                                                    *)
(***************************************************************************)
NumInjectors == 2
MaxStart == 2

(***************************************************************************)
(* orchestrator_state and the SessionStart injector.                       *)
(***************************************************************************)
\* session ids that own an orchestrator_state row
Rows == {"A", "B"}
\* every session id a SessionStart hook can be started for
SessIds == Rows \cup {"N1", "N2"}
\* sys.argv[2] when the host passes no session id
NoSession == ""
Injectors == 1..NumInjectors

\* find_with_retry(conn, new_session_id, retries=3, delay=0.5)
Retries == 3

\* WHERE status IN ('cleared', 'clearing') AND session_id != %s
\* a SELECT that passes over the clearing rows: WHERE status = 'cleared'
\* AND session_id != %s
EligibleCleared(o, newSessionId) ==
    {r \in Rows : o[r].status = "cleared" /\ r # newSessionId}

Eligible(o, newSessionId) ==
    {r \in Rows : o[r].status \in {"cleared", "clearing"} /\ r # newSessionId}

\* ORDER BY started_at DESC LIMIT 1: any row with the greatest started_at
Newest(o, S) ==
    {r \in S : \A q \in S : o[q].started_at <= o[r].started_at}

\* UPDATE ... SET status = 'injected' WHERE session_id = %s AND status IN (...)
ConsumeMatches(o, r) == o[r].status \in {"cleared", "clearing"}

InjIdle(newId) ==
    [pc |-> "idle", newId |-> newId, attempt |-> 0, sel |-> None,
     dbResult |-> None, rowcount |-> 0, prev |-> None, startElig |-> {},
     out |-> None]

HandoffInit ==
    /\ ks = <<>>
    /\ sessions = <<>>
    /\ child = <<>>
    /\ reader = <<>>
    /\ call = <<>>
    /\ snow = 0
    /\ pl = <<>>
    /\ plan = <<>>
    /\ srv = <<>>
    /\ sver = <<>>
    /\ mig = <<>>
    /\ wnow = 0
    /\ pty = <<>>
    /\ wbuf = <<>>
    /\ snd = <<>>
    /\ sess = <<>>
    /\ rd = <<>>
    /\ ctx = <<>>
    /\ sstate = <<>>
    /\ tailf = <<>>
    /\ ec = <<>>
    /\ tools = <<>>
    /\ kindex = {}
    /\ launched = 0
    /\ tl = <<>>
    /\ cinbox = <<>>
    /\ hk = <<>>
    /\ mIn = <<>>
    /\ mOut = <<>>
    /\ clock = 0
    /\ jobs = <<>>
    /\ inbox = <<>>
    /\ cons = <<>>
    /\ \E st \in [Rows -> 1..MaxStart] :
          orch = [r \in Rows |-> [status |-> "running", started_at |-> st[r],
                                   last_heartbeat_at |-> st[r]]]
    /\ marker \in Rows \cup {None}
    /\ \E ids \in [Injectors -> SessIds \cup {NoSession}] :
          /\ \A i, j \in Injectors :
                (i # j /\ ids[i] # NoSession) => ids[i] # ids[j]
          /\ inj = [i \in Injectors |-> InjIdle(ids[i])]

\* SessionEnd(reason=clear): the sidecar's row goes running -> clearing
MarkClearing(r) ==
    /\ orch[r].status = "running"
    /\ orch' = [orch EXCEPT ![r].status = "clearing"]
    /\ UNCHANGED <<xvars, marker, inj, mvars, rvars>>

\* the sidecar finishes clearing: clearing -> cleared
MarkCleared(r) ==
    /\ orch[r].status = "clearing"
    /\ orch' = [orch EXCEPT ![r].status = "cleared"]
    /\ UNCHANGED <<xvars, marker, inj, mvars, rvars>>

\* a consumed sidecar shuts down: injected -> stopped
MarkStopped(r) ==
    /\ orch[r].status = "injected"
    /\ orch' = [orch EXCEPT ![r].status = "stopped"]
    /\ UNCHANGED <<xvars, marker, inj, mvars, rvars>>

\* main(): argv is read; with a new session id the DB lookup starts
InjStart(i) ==
    /\ inj[i].pc = "idle"
    /\ inj[i].newId # NoSession
    /\ inj' = [inj EXCEPT ![i].pc = "select",
                          ![i].startElig = Eligible(orch, inj[i].newId)]
    /\ UNCHANGED <<xvars, orch, marker, mvars, rvars>>

\* main(): without a new session id only the legacy marker is tried
InjStartNoId(i) ==
    /\ inj[i].pc = "idle"
    /\ inj[i].newId = NoSession
    /\ inj' = [inj EXCEPT ![i].pc = "legacy2"]
    /\ UNCHANGED <<xvars, orch, marker, mvars, rvars>>

\* find_previous_session_id: the SELECT returned a row
InjSelectFound(i) ==
    /\ inj[i].pc = "select"
    /\ \E r \in Newest(orch, Eligible(orch, inj[i].newId)) :
          inj' = [inj EXCEPT ![i].pc = "update", ![i].sel = r]
    /\ UNCHANGED <<xvars, orch, marker, mvars, rvars>>

\* find_previous_session_id returned None: find_with_retry sleeps and retries,
\* or gives up after the last attempt
InjSelectMiss(i) ==
    /\ inj[i].pc = "select"
    /\ Eligible(orch, inj[i].newId) = {}
    /\ inj' = [inj EXCEPT ![i].attempt = @ + 1,
                          ![i].pc = IF inj[i].attempt + 1 < Retries
                                    THEN "select" ELSE "legacy1"]
    /\ UNCHANGED <<xvars, orch, marker, mvars, rvars>>

\* find_previous_session_id: the UPDATE, the commit and the return
InjUpdate(i) ==
    /\ inj[i].pc = "update"
    /\ LET r == inj[i].sel
           hit == ConsumeMatches(orch, r)
       IN /\ orch' = IF hit THEN [orch EXCEPT ![r].status = "injected"] ELSE orch
          /\ inj' = [inj EXCEPT ![i].pc = "load",
                                ![i].rowcount = IF hit THEN 1 ELSE 0,
                                ![i].dbResult = r,
                                ![i].prev = r]
    /\ UNCHANGED <<xvars, marker, mvars, rvars>>

\* find_previous_session_id_legacy: the marker file is read and removed
InjLegacy(i) ==
    /\ inj[i].pc \in {"legacy1", "legacy2"}
    /\ marker' = None
    /\ inj' = [inj EXCEPT ![i].prev = marker,
                          ![i].pc = IF marker # None THEN "load"
                                    ELSE IF inj[i].pc = "legacy1" THEN "legacy2"
                                    ELSE "done"]
    /\ UNCHANGED <<xvars, orch, mvars, rvars>>

\* main(): the latest session_state of the previous session is loaded and the
\* additionalContext JSON is printed when there is one
InjLoad(i) ==
    /\ inj[i].pc = "load"
    /\ \E found \in BOOLEAN :
          inj' = [inj EXCEPT ![i].pc = "done",
                             ![i].out = IF found THEN inj[i].prev ELSE None]
    /\ UNCHANGED <<xvars, orch, marker, mvars, rvars>>

HandoffNext ==
    \/ \E r \in Rows : MarkClearing(r)
    \/ \E r \in Rows : MarkCleared(r)
    \/ \E r \in Rows : MarkStopped(r)
    \/ \E i \in Injectors : InjStart(i)
    \/ \E i \in Injectors : InjStartNoId(i)
    \/ \E i \in Injectors : InjSelectFound(i)
    \/ \E i \in Injectors : InjSelectMiss(i)
    \/ \E i \in Injectors : InjUpdate(i)
    \/ \E i \in Injectors : InjLegacy(i)
    \/ \E i \in Injectors : InjLoad(i)

SpecHandoff == HandoffInit /\ [][HandoffNext]_vars

(***************************************************************************)
(* Claims about the session hand-off (SpecHandoff).                        *)
(***************************************************************************)

\* C1: two injectors started for different new session ids never get the same
\* previous session id back from find_previous_session_id, under every
\* interleaving of their SELECT and UPDATE steps.
C1_ExclusiveHandoff ==
    \A i, j \in Injectors :
        (i # j /\ inj[i].dbResult # None /\ inj[j].dbResult # None)
            => inj[i].dbResult # inj[j].dbResult

\* C2: when two injectors for fresh session ids both start while rows A and B
\* are both cleared/clearing, then once both have finished A and B are both
\* consumed (injected, possibly stopped since), the two injectors hold
\* different rows and neither came back empty-handed from the DB lookup.
C2_BothRowsConsumed ==
    \A i, j \in Injectors :
        (/\ i # j
         /\ inj[i].pc = "done" /\ inj[j].pc = "done"
         /\ inj[i].startElig = Rows /\ inj[j].startElig = Rows)
            => /\ inj[i].dbResult # None
               /\ inj[j].dbResult # None
               /\ inj[i].dbResult # inj[j].dbResult
               /\ \A r \in Rows : orch[r].status \in {"injected", "stopped"}

\* C3: whenever find_previous_session_id returns a row, the row is not the new
\* session itself and this very call moved it from cleared/clearing to
\* injected (so it was not running, injected or stopped); a call that found
\* nothing changed no row.
C3_ConsumeContract ==
    \A i \in Injectors :
        /\ inj[i].dbResult # None =>
              /\ inj[i].dbResult # inj[i].newId
              /\ inj[i].rowcount = 1
        /\ inj[i].dbResult = None => inj[i].rowcount = 0

\* the SELECTs an injector has run
Lookups(i) ==
    inj[i].attempt
    + (IF inj[i].pc = "update" \/ inj[i].dbResult # None THEN 1 ELSE 0)

\* how far an injector is through main()
Rank(j) ==
    CASE j.pc = "idle" -> 0
      [] j.pc = "select" -> 1 + j.attempt
      [] j.pc = "update" -> 5
      [] j.pc = "legacy1" -> 5
      [] j.pc = "legacy2" -> 6
      [] j.pc = "load" -> 7
      [] j.pc = "done" -> 8

\* a row a SessionEnd has made clearing or cleared, not the new session's own
Cleared(newId) ==
    {r \in Rows : orch[r].status \in {"clearing", "cleared"} /\ r # newId}

\* C27 (as stated): an injector that missed three times ends without output
C27_ThreeMissesNoOutput ==
    \A i \in Injectors :
        inj[i].pc = "done" /\ inj[i].attempt = Retries => inj[i].out = None

\* C27 (amended): an injector runs the lookup at most 3 times; an attempt
\* made while a row of another session is clearing or cleared takes such a
\* row and ends the retries, an attempt made while there is none counts a
\* miss; the legacy marker is read after exactly three misses; an injector
\* that missed three times ends without output when the marker names no
\* session, and may print the state of the marker's session otherwise; every
\* step of an injector brings it nearer to its end
C27_RetryThenLegacy ==
    /\ [](\A i \in Injectors :
            /\ Lookups(i) <= Retries
            /\ inj[i].pc = "legacy1"
                  => inj[i].attempt = Retries /\ inj[i].dbResult = None
            /\ inj[i].pc = "done" /\ inj[i].attempt = Retries
                  => inj[i].out \in {None, inj[i].prev})
    /\ [][\A i \in Injectors :
            inj'[i] # inj[i]
            => /\ Rank(inj'[i]) > Rank(inj[i])
               /\ inj[i].pc = "select"
                     => IF Cleared(inj[i].newId) # {}
                        THEN /\ inj'[i].pc = "update"
                             /\ inj'[i].sel \in Cleared(inj[i].newId)
                             /\ inj'[i].attempt = inj[i].attempt
                        ELSE /\ inj'[i].attempt = inj[i].attempt + 1
                             /\ inj'[i].pc = IF inj'[i].attempt < Retries
                                              THEN "select" ELSE "legacy1"
               /\ inj[i].pc = "legacy1"
                     => /\ inj'[i].prev = marker
                        /\ marker' = None
                        /\ marker = None => inj'[i].pc = "legacy2"
               /\ inj[i].pc = "legacy2" /\ marker = None
                     => inj'[i].pc = "done" /\ inj'[i].out = None]_vars

\* the third attempt found a row that was not there at the first two
C27_Witness ==
    \E i \in Injectors :
        /\ inj[i].pc = "done"
        /\ inj[i].attempt = Retries - 1
        /\ inj[i].dbResult # None
        /\ inj[i].out = inj[i].dbResult

(***************************************************************************)
(* The merge of the collected retriever results.  A text is the sequence   *)
(* of its characters.                                                      *)
(***************************************************************************)
MaxPieces == 2
MaxResults == 2

\* "=== MEMORY CONTEXT ==="
MemHeader ==
    <<"=", "=", "=", " ", "M", "E", "M", "O", "R", "Y", " ",
      "C", "O", "N", "T", "E", "X", "T", " ", "=", "=", "=">>

\* "=== ADDITIONAL CONTEXT ==="
AddHeader ==
    <<"=", "=", "=", " ", "A", "D", "D", "I", "T", "I", "O", "N", "A", "L", " ",
      "C", "O", "N", "T", "E", "X", "T", " ", "=", "=", "=">>

\* "\n\n"
MergeSep == <<"\n", "\n">>

MatchAt(s, old, i) ==
    /\ i + Len(old) - 1 <= Len(s)
    /\ SubSeq(s, i, i + Len(old) - 1) = old

\* str.replace(old, new), old not empty: the occurrences are found from left
\* to right and do not overlap
RECURSIVE ReplaceFrom(_, _, _, _)
ReplaceFrom(s, old, new, i) ==
    IF i > Len(s) THEN <<>>
    ELSE IF MatchAt(s, old, i)
         THEN new \o ReplaceFrom(s, old, new, i + Len(old))
         ELSE <<s[i]>> \o ReplaceFrom(s, old, new, i + 1)

\* str.replace(old, new, 1): the first occurrence only
StrReplaceFirst(s, old, new) ==
    IF \E i \in 1..Len(s) : MatchAt(s, old, i)
    THEN LET p == CHOOSE i \in 1..Len(s) :
                     /\ MatchAt(s, old, i)
                     /\ \A k \in 1..(i - 1) : ~MatchAt(s, old, k)
         IN SubSeq(s, 1, p - 1) \o new \o SubSeq(s, p + Len(old), Len(s))
    ELSE s

StrReplace(s, old, new) == ReplaceFrom(s, old, new, 1)

\* the loop of _merge_results over results[1:]
RECURSIVE MergeExtras(_, _)
MergeExtras(merged, rest) ==
    IF rest = <<>> THEN merged
    ELSE MergeExtras(merged \o MergeSep \o StrReplace(rest[1], MemHeader, AddHeader),
                     Tail(rest))

\* _merge_results(results), results not empty
MergeResults(results) ==
    IF Len(results) = 1 THEN results[1]
    ELSE MergeExtras(results[1], Tail(results))

\* the building blocks of the texts the merge is tried on: filler, the header,
\* and the header without its leading "===" (it completes a header when it
\* follows "===")
Pieces ==
    { <<"x">>, MemHeader, SubSeq(MemHeader, 4, Len(MemHeader)) }

RECURSIVE Flatten(_)
Flatten(ps) == IF ps = <<>> THEN <<>> ELSE ps[1] \o Flatten(Tail(ps))

Texts ==
    { Flatten(ps) : ps \in UNION { [1..n -> Pieces] : n \in 1..MaxPieces } }

MergeInit ==
    /\ ks = <<>>
    /\ sessions = <<>>
    /\ child = <<>>
    /\ reader = <<>>
    /\ call = <<>>
    /\ snow = 0
    /\ pl = <<>>
    /\ plan = <<>>
    /\ srv = <<>>
    /\ sver = <<>>
    /\ mig = <<>>
    /\ wnow = 0
    /\ pty = <<>>
    /\ wbuf = <<>>
    /\ snd = <<>>
    /\ sess = <<>>
    /\ rd = <<>>
    /\ ctx = <<>>
    /\ sstate = <<>>
    /\ tailf = <<>>
    /\ ec = <<>>
    /\ tools = <<>>
    /\ kindex = {}
    /\ launched = 0
    /\ tl = <<>>
    /\ cinbox = <<>>
    /\ hk = <<>>
    /\ orch = <<>>
    /\ marker = None
    /\ inj = <<>>
    /\ clock = 0
    /\ jobs = <<>>
    /\ inbox = <<>>
    /\ cons = <<>>
    /\ mIn \in UNION { [1..n -> Texts] : n \in 1..MaxResults }
    /\ mOut = <<>>

\* result_text = _merge_results(results_collected)
MergeApply ==
    /\ mOut = <<>>
    /\ mOut' = MergeResults(mIn)
    /\ UNCHANGED <<xvars, hvars, mIn, rvars>>

MergeNext == MergeApply

SpecMerge == MergeInit /\ [][MergeNext]_vars

\* every position of s at which the header starts
Occurrences(s) == {p \in 1..Len(s) : MatchAt(s, MemHeader, p)}

\* the occurrences a left-to-right scan replaces: an occurrence counts unless
\* it overlaps a counted occurrence to its left
Scanned(s) ==
    CHOOSE G \in SUBSET Occurrences(s) :
        \A p \in Occurrences(s) :
            p \in G <=> ~(\E q \in G : q < p /\ p < q + Len(MemHeader))

Growth == Len(AddHeader) - Len(MemHeader)

\* where position p of s lands in the text with the scanned headers rewritten
Shifted(s, p) ==
    p + Growth * Cardinality({q \in Scanned(s) : q + Len(MemHeader) <= p})

\* x is s with every scanned header rewritten and nothing else changed
IsRewritten(s, x) ==
    /\ Len(x) = Len(s) + Growth * Cardinality(Scanned(s))
    /\ \A q \in Scanned(s) :
          SubSeq(x, Shifted(s, q), Shifted(s, q) + Len(AddHeader) - 1) = AddHeader
    /\ \A p \in 1..Len(s) :
          (~\E q \in Scanned(s) : q <= p /\ p < q + Len(MemHeader))
              => x[Shifted(s, p)] = s[p]

\* C7 (as claimed): one result is returned verbatim; for two results the output
\* is R1, "\n\n" and R2 with only the first header occurrence rewritten.
C7_FirstOccurrenceOnly ==
    mOut # <<>> =>
        /\ Len(mIn) = 1 => mOut = mIn[1]
        /\ Len(mIn) = 2 =>
              mOut = mIn[1] \o MergeSep
                       \o StrReplaceFirst(mIn[2], MemHeader, AddHeader)

\* C7 (amended): one result is returned verbatim; for two results the output is
\* R1 untouched, then "\n\n", then R2 with every header occurrence that a
\* left-to-right scan finds rewritten to the additional-context header.
C7_EveryOccurrence ==
    mOut # <<>> =>
        /\ Len(mIn) = 1 => mOut = mIn[1]
        /\ Len(mIn) = 2 =>
              /\ Len(mOut) >= Len(mIn[1]) + Len(MergeSep)
              /\ SubSeq(mOut, 1, Len(mIn[1])) = mIn[1]
              /\ SubSeq(mOut, Len(mIn[1]) + 1, Len(mIn[1]) + Len(MergeSep)) = MergeSep
              /\ IsRewritten(mIn[2],
                             SubSeq(mOut, Len(mIn[1]) + Len(MergeSep) + 1, Len(mOut)))

\* two results were merged, the second holding the header twice, the first
\* holding it too
C7_Witness ==
    /\ mOut # <<>>
    /\ Len(mIn) = 2
    /\ Cardinality(Scanned(mIn[2])) >= 2
    /\ Occurrences(mIn[1]) # {}

(***************************************************************************)
(* retrieval_inbox, its producers (the two retrievers) and its consumers   *)
(* (the UserPromptSubmit hook and the aidam_retrieve tool).                *)
(***************************************************************************)
\* replies to the earlier prompt that are still outstanding
MaxLate == 1
\* the values CURRENT_TIMESTAMP takes are 0..MaxTime
MaxTime == 2
\* the longest time between a retriever's created_at and its commit
MaxDelay == 1
\* expires_at = created_at + TTL
TTL == 2

\* for _ in range(14) / the 14 entries of poll_intervals
PollCount == 14
\* remaining_polls = 3
GracePolls == 3
\* if none_count >= 2
NoneLimit == 2

\* the keyword retriever and the cascade retriever
Retrievers == {1, 2}
\* job 1 is an earlier prompt whose hook has given up waiting: MaxLate of its
\* replies can still arrive; job 2 is the prompt of the call that is followed
RowIds == ({1} \X (1..MaxLate)) \cup ({2} \X Retrievers)
NoRowId == <<0, 0>>
Consumers == {"hook", "mcp"}
Prompts == {"fix the login bug", "continue"}

\* hashlib.sha256(prompt.encode('utf-8')).hexdigest()[:16]
PromptHash(prompt) ==
    IF prompt = "fix the login bug" THEN "f7459994fb8292c5" ELSE "e256ee8e7aff6957"

Digits == <<"1", "2", "3", "4", "5", "6", "7", "8", "9">>

\* what a retriever writes into context_type and context_text
ReplyKinds == {"none", "empty", "memory"}
ReplyType(kind) == IF kind = "none" THEN "none" ELSE "memory"
ReplyText(id, kind) ==
    IF kind = "memory" THEN MemHeader \o <<Digits[id[1]], Digits[id[2]]>>
    ELSE IF kind = "none" THEN <<"n">>
    ELSE <<>>

NoRow ==
    [status |-> "absent", session |-> None, hash |-> None, ctype |-> None,
     text |-> <<>>, created_at |-> 0, expires_at |-> 0, job |-> 0]

NoOut == [kind |-> "none", text |-> <<>>]

ConsIdle ==
    [pc |-> "idle", session |-> None, hash |-> None, job |-> 0,
     rows |-> <<>>, results |-> <<>>, resIter |-> <<>>, none_count |-> 0,
     second_chance |-> FALSE, remaining_polls |-> 0, iter |-> 0,
     late |-> NoRowId, out |-> NoOut]

RetrievalInit ==
    /\ ks = <<>>
    /\ sessions = <<>>
    /\ child = <<>>
    /\ reader = <<>>
    /\ call = <<>>
    /\ snow = 0
    /\ pl = <<>>
    /\ plan = <<>>
    /\ srv = <<>>
    /\ sver = <<>>
    /\ mig = <<>>
    /\ wnow = 0
    /\ pty = <<>>
    /\ wbuf = <<>>
    /\ snd = <<>>
    /\ sess = <<>>
    /\ rd = <<>>
    /\ ctx = <<>>
    /\ sstate = <<>>
    /\ tailf = <<>>
    /\ ec = <<>>
    /\ tools = <<>>
    /\ kindex = {}
    /\ launched = 0
    /\ tl = <<>>
    /\ cinbox = <<>>
    /\ hk = <<>>
    /\ marker = None
    /\ inj = <<>>
    /\ mIn = <<>>
    /\ mOut = <<>>
    /\ orch = [r \in Rows |->
                  [status |-> "running", started_at |-> 1,
                   last_heartbeat_at |-> IF r = "A" THEN 1 ELSE 2]]
    /\ clock = 0
    /\ jobs = <<[session |-> "B", hash |-> PromptHash("continue"), at |-> 0]>>
    /\ inbox = [r \in RowIds |-> NoRow]
    /\ cons = [c \in Consumers |-> ConsIdle]

\* no call has been made yet: one call is followed from its start to its end
AllIdle == \A c \in Consumers : cons[c].pc = "idle"

\* the call that is followed is between two of its statements that read the
\* database or the time (a step of the environment placed anywhere else can be
\* moved to one of these points without changing what the call sees)
Observing ==
    \/ AllIdle
    \/ \E c \in Consumers : cons[c].pc \in {"late", "poll"}

\* the text a consumer holds for a selected row
TextOf(inb, ids) == [i \in 1..Len(ids) |-> inb[ids[i]].text]

\* time passes
Tick ==
    /\ Observing
    /\ clock < MaxTime
    /\ clock' = clock + 1
    /\ UNCHANGED <<xvars, hvars, mvars, jobs, inbox, cons>>

\* enqueueResult: a retriever answers job j; the row carries the timestamp of
\* the retriever's transaction and becomes visible when it commits, at most
\* MaxDelay later (the retrievers of a job are numbered in the order in which
\* they commit)
RetrieverReply(j, k, kind, created) ==
    /\ Observing
    /\ j <= Len(jobs)
    /\ <<j, k>> \in RowIds
    /\ inbox[<<j, k>>].status = "absent"
    /\ \A q \in 1..(k - 1) : inbox[<<j, q>>].status # "absent"
    /\ created \in jobs[j].at..clock
    /\ clock - created <= MaxDelay
    /\ inbox' = [inbox EXCEPT ![<<j, k>>] =
                    [status |-> "pending", session |-> jobs[j].session,
                     hash |-> jobs[j].hash, ctype |-> ReplyType(kind),
                     text |-> ReplyText(<<j, k>>, kind),
                     created_at |-> created, expires_at |-> created + TTL,
                     job |-> j]]
    /\ UNCHANGED <<xvars, hvars, mvars, clock, jobs, cons>>

\* cleanup_expired_retrieval(): pending rows past expires_at are dropped
CleanupExpired(inb, now) ==
    [r \in RowIds |->
        IF inb[r].status = "pending" /\ inb[r].expires_at < now
        THEN [inb[r] EXCEPT !.status = "deleted"] ELSE inb[r]]

\* an UPDATE that matches no row
MarkNothing(inb, r) == inb

\* UPDATE retrieval_inbox SET status = 'delivered' ... WHERE id = %s
MarkDelivered(inb, r) ==
    IF inb[r].status \in {"pending", "delivered"}
    THEN [inb EXCEPT ![r].status = "delivered"] ELSE inb

\* the late-arrival SELECT: WHERE session_id = %s AND status = 'pending' AND
\* context_type != 'none' AND context_text IS NOT NULL AND context_text != ''
\* AND expires_at > CURRENT_TIMESTAMP
LateCandidates(inb, session, now) ==
    {r \in RowIds : /\ inb[r].session = session
                    /\ inb[r].status = "pending"
                    /\ inb[r].ctype # "none"
                    /\ inb[r].text # <<>>
                    /\ inb[r].expires_at > now}

\* ORDER BY created_at DESC LIMIT 1
LatestCreated(inb, S) ==
    {r \in S : \A q \in S : inb[q].created_at <= inb[r].created_at}

\* the poll SELECT without its expires_at condition
PollAnyAge(inb, session, hash, now) ==
    {r \in RowIds : /\ inb[r].session = session
                    /\ inb[r].hash = hash
                    /\ inb[r].status = "pending"}

\* the poll SELECT: WHERE session_id = %s AND prompt_hash = %s AND
\* status = 'pending' AND expires_at > CURRENT_TIMESTAMP
PollCandidates(inb, session, hash, now) ==
    {r \in RowIds : /\ inb[r].session = session
                    /\ inb[r].hash = hash
                    /\ inb[r].status = "pending"
                    /\ inb[r].expires_at > now}

\* ORDER BY created_at DESC (not what the poll SELECT asks for)
CreatedDesc(inb, a, b) == inb[a].created_at >= inb[b].created_at

\* ORDER BY created_at ASC
CreatedAsc(inb, a, b) == inb[a].created_at <= inb[b].created_at

\* every order in which the SELECT may return the rows of S
FetchOrders(inb, S) ==
    {f \in [1..Cardinality(S) -> S] :
        /\ \A i, j \in 1..Cardinality(S) : i # j => f[i] # f[j]
        /\ \A i, j \in 1..Cardinality(S) : i < j => CreatedAsc(inb, f[i], f[j])}

\* if ctx_type == 'none' or not ctx_text
IsNoneReply(row) == row.ctype = "none" \/ row.text = <<>>

\* if none_count >= 3 (not the code's limit)
BothNoneLate(c) == c.none_count >= NoneLimit + 1

\* if none_count >= 1 (not the code's limit)
OneNone(c) == c.none_count >= NoneLimit - 1
\* if none_count >= 2: break
BothNone(c) == c.none_count >= NoneLimit

\* a loop that goes on for one more entry than poll_intervals has
LoopEndsLate(c) == c.iter >= PollCount + 1

\* for wait in poll_intervals: the last entry has been used
LoopEnds(c) == c.iter >= PollCount

\* a consumer's call is over: the collected results are merged and returned
Finish(c, inb) ==
    [c EXCEPT !.pc = "done",
              !.out = IF c.results # <<>>
                      THEN [kind |-> "context",
                            text |-> MergeResults(TextOf(inb, c.results))]
                      ELSE NoOut]

\* the termination rules at the end of one poll iteration
AfterIteration(c, inb) ==
    IF BothNone(c) THEN Finish(c, inb)
    ELSE LET c1 == IF c.results # <<>> /\ ~c.second_chance
                   THEN [c EXCEPT !.second_chance = TRUE,
                                  !.remaining_polls = GracePolls]
                   ELSE c
             c2 == IF c1.second_chance
                   THEN [c1 EXCEPT !.remaining_polls = @ - 1] ELSE c1
         IN IF c2.second_chance
               /\ (c2.remaining_polls <= 0 \/ Len(c2.results) >= 2)
            THEN Finish(c2, inb)
            ELSE IF LoopEnds(c2) THEN Finish(c2, inb)
            ELSE [c2 EXCEPT !.pc = "poll"]

\* UserPromptSubmit: stdin is read, the hash computed and the prompt_context
\* job inserted into cognitive_inbox
HookSubmit(session, prompt) ==
    /\ AllIdle
    /\ jobs' = Append(jobs, [session |-> session, hash |-> PromptHash(prompt),
                             at |-> clock])
    /\ cons' = [cons EXCEPT !["hook"] =
                   [ConsIdle EXCEPT !.pc = "cleanup", !.session = session,
                                    !.hash = PromptHash(prompt),
                                    !.job = Len(jobs) + 1]]
    /\ UNCHANGED <<xvars, hvars, mvars, clock, inbox>>

\* SELECT cleanup_expired_retrieval(); conn.commit()
HookCleanup ==
    /\ cons["hook"].pc = "cleanup"
    /\ inbox' = CleanupExpired(inbox, clock)
    /\ cons' = [cons EXCEPT !["hook"].pc = "late"]
    /\ UNCHANGED <<xvars, hvars, mvars, clock, jobs>>

\* the late-arrival SELECT returned a row
HookLateFound ==
    /\ cons["hook"].pc = "late"
    /\ \E r \in LatestCreated(inbox,
                   LateCandidates(inbox, cons["hook"].session, clock)) :
          cons' = [cons EXCEPT !["hook"].pc = "lateMark", !["hook"].late = r]
    /\ UNCHANGED <<xvars, hvars, mvars, clock, jobs, inbox>>

\* the late-arrival SELECT returned nothing: the poll loop starts
HookLateNone ==
    /\ cons["hook"].pc = "late"
    /\ LateCandidates(inbox, cons["hook"].session, clock) = {}
    /\ cons' = [cons EXCEPT !["hook"].pc = "poll"]
    /\ UNCHANGED <<xvars, hvars, mvars, clock, jobs, inbox>>

\* the late row is marked delivered and its text printed as additionalContext
HookLateMark ==
    /\ cons["hook"].pc = "lateMark"
    /\ inbox' = MarkDelivered(inbox, cons["hook"].late)
    /\ cons' = [cons EXCEPT !["hook"].pc = "done",
                            !["hook"].out =
                                [kind |-> "context",
                                 text |-> inbox[cons["hook"].late].text]]
    /\ UNCHANGED <<xvars, hvars, mvars, clock, jobs>>

\* WHERE status = 'running' LIMIT 1, without the ORDER BY
FindRunningUnordered(o) == {r \in Rows : o[r].status = "running"}

\* WHERE status = 'running' ORDER BY last_heartbeat_at DESC NULLS LAST LIMIT 1
FindRunning(o) ==
    LET running == {r \in Rows : o[r].status = "running"}
    IN {r \in running :
           \A q \in running : o[q].last_heartbeat_at <= o[r].last_heartbeat_at}

\* aidam_retrieve: the job is inserted for the running orchestrator's session;
\* the cleanup it then asks for runs in a transaction that is never committed
McpRetrieve(prompt) ==
    /\ AllIdle
    /\ \E session \in FindRunning(orch) :
          /\ jobs' = Append(jobs, [session |-> session,
                                   hash |-> PromptHash(prompt), at |-> clock])
          /\ cons' = [cons EXCEPT !["mcp"] =
                         [ConsIdle EXCEPT !.pc = "poll", !.session = session,
                                          !.hash = PromptHash(prompt),
                                          !.job = Len(jobs) + 1]]
    /\ UNCHANGED <<xvars, hvars, mvars, clock, inbox>>

\* one poll iteration begins: the sleep and the SELECT
PollFetch(c) ==
    /\ cons[c].pc = "poll"
    /\ LET S == PollCandidates(inbox, cons[c].session, cons[c].hash, clock)
           c1 == [cons[c] EXCEPT !.iter = @ + 1]
       IN IF S = {}
          THEN cons' = [cons EXCEPT ![c] = AfterIteration(c1, inbox)]
          ELSE \E f \in FetchOrders(inbox, S) :
                  cons' = [cons EXCEPT ![c] = [c1 EXCEPT !.pc = "mark", !.rows = f]]
    /\ UNCHANGED <<xvars, hvars, mvars, clock, jobs, inbox>>

\* the next fetched row is marked delivered, then classified; after the last
\* row the termination rules are applied
PollMark(c) ==
    /\ cons[c].pc = "mark"
    /\ LET r == Head(cons[c].rows)
           c1 == IF IsNoneReply(inbox[r])
                 THEN [cons[c] EXCEPT !.rows = Tail(@), !.none_count = @ + 1]
                 ELSE [cons[c] EXCEPT !.rows = Tail(@),
                                      !.results = Append(@, r),
                                      !.resIter = Append(@, cons[c].iter)]
       IN /\ inbox' = MarkDelivered(inbox, r)
          /\ cons' = [cons EXCEPT ![c] =
                         IF c1.rows = <<>> THEN AfterIteration(c1, inbox) ELSE c1]
    /\ UNCHANGED <<xvars, hvars, mvars, clock, jobs>>

RetrievalNext ==
    \/ Tick
    \/ \E id \in RowIds, kind \in ReplyKinds, t \in 0..MaxTime :
          RetrieverReply(id[1], id[2], kind, t)
    \/ \E s \in Rows, p \in Prompts : HookSubmit(s, p)
    \/ HookCleanup
    \/ HookLateFound
    \/ HookLateNone
    \/ HookLateMark
    \/ \E p \in Prompts : McpRetrieve(p)
    \/ \E c \in Consumers : PollFetch(c)
    \/ \E c \in Consumers : PollMark(c)

SpecRetrieval == RetrievalInit /\ [][RetrievalNext]_vars

\* the steps of a call that was started: the process keeps running
CallStep ==
    \/ HookCleanup
    \/ HookLateFound
    \/ HookLateNone
    \/ HookLateMark
    \/ \E c \in Consumers : PollFetch(c)
    \/ \E c \in Consumers : PollMark(c)

\* the call and the replies to its own job, under a scheduler that keeps the
\* process of a started call running
LiveNext ==
    \/ Tick
    \/ \E k \in Retrievers, kind \in ReplyKinds, t \in 0..MaxTime :
          RetrieverReply(2, k, kind, t)
    \/ \E s \in Rows, p \in Prompts : HookSubmit(s, p)
    \/ \E p \in Prompts : McpRetrieve(p)
    \/ CallStep

SpecRetrievalLive == RetrievalInit /\ [][LiveNext]_vars /\ WF_vars(CallStep)

\* ---------------------------------------------------------------------------
\* Properties of the retrieval protocol
\* ---------------------------------------------------------------------------

Polled(c) == cons[c].pc = "done" /\ cons[c].late = NoRowId

CreatedOf(c, i) == inbox[cons[c].results[i]].created_at

\* C4 (as stated): the real results collected over all poll iterations of one
\* submit are in non-decreasing created_at order, whatever the times at which
\* the retrievers' rows become visible.
C4_CreatedOrder ==
    \A c \in Consumers : \A i \in 1..(Len(cons[c].results) - 1) :
        CreatedOf(c, i) <= CreatedOf(c, i + 1)

\* C4 (amended): the real results are collected in the order of the poll
\* iterations that fetched them and, within one iteration, in non-decreasing
\* created_at order; the merged text keeps the order of collection.
C4_OrderWithinIteration ==
    \A c \in Consumers :
        /\ \A i \in 1..(Len(cons[c].results) - 1) :
              \/ cons[c].resIter[i] < cons[c].resIter[i + 1]
              \/ /\ cons[c].resIter[i] = cons[c].resIter[i + 1]
                 /\ CreatedOf(c, i) <= CreatedOf(c, i + 1)
        /\ Polled(c) /\ cons[c].results # <<>> =>
              cons[c].out.text = MergeResults(TextOf(inbox, cons[c].results))

\* two results of different age were fetched by the same poll iteration
C4_Witness ==
    \E c \in Consumers :
        /\ Polled(c)
        /\ Len(cons[c].results) = 2
        /\ cons[c].resIter[1] = cons[c].resIter[2]
        /\ CreatedOf(c, 1) < CreatedOf(c, 2)

Min(a, b) == IF a <= b THEN a ELSE b

\* C6: after the iteration that collected the first real result the loop runs
\* 3 more iterations (or all that are left) unless a second real result or a
\* second none reply ends it.
C6_GracePeriod ==
    \A c \in Consumers :
        Polled(c) /\ Len(cons[c].results) = 1 /\ cons[c].none_count < NoneLimit
            => cons[c].iter >= Min(cons[c].resIter[1] + GracePolls, PollCount)

\* C26: one none/empty reply never ends the poll loop: a call that consumed
\* exactly one and no real result ran all 14 iterations; a call that consumed
\* one none and one real result ended because its second-chance window ran
\* out (or the 14 iterations did); and no call goes on polling after two
\* none replies
C26_SingleNone ==
    \A c \in Consumers :
        /\ Polled(c) /\ cons[c].none_count = 1 /\ cons[c].results = <<>>
              => cons[c].iter = PollCount
        /\ Polled(c) /\ cons[c].none_count = 1 /\ Len(cons[c].results) = 1
              => \/ cons[c].second_chance /\ cons[c].remaining_polls <= 0
                 \/ cons[c].iter = PollCount
        /\ cons[c].pc \in {"poll", "mark"} /\ cons[c].rows = <<>>
              => cons[c].none_count < NoneLimit

\* a call consumed one none reply and then one real result, and ended when
\* the window of the real result ran out
C26_Witness ==
    \E c \in Consumers :
        /\ Polled(c)
        /\ cons[c].none_count = 1
        /\ Len(cons[c].results) = 1
        /\ cons[c].resIter[1] > 1
        /\ cons[c].remaining_polls <= 0
        /\ cons[c].iter < PollCount

\* C8: the late-arrival check never takes a row created for the current call.
C8_LateRowIsEarlier ==
    cons["hook"].late # NoRowId =>
        inbox[cons["hook"].late].job # cons["hook"].job

\* C9 (as stated): no consumer holds the text of a row that is still pending.
C9_NoTextOfPendingRow ==
    \A c \in Consumers :
        /\ \A i \in 1..Len(cons[c].rows) :
              inbox[cons[c].rows[i]].status # "pending"
        /\ cons[c].late # NoRowId => inbox[cons[c].late].status # "pending"

\* the rows whose text a consumer has classified, collected or returned
Used(c) ==
    {cons[c].results[i] : i \in 1..Len(cons[c].results)}
        \cup (IF cons[c].out.kind = "context" /\ cons[c].late # NoRowId
              THEN {cons[c].late} ELSE {})

\* C9 (amended): the text of a row is fetched while the row is pending, but it
\* is collected or returned only after the row was marked delivered; a
\* delivered row never becomes pending again.
C9_MarkedBeforeUse ==
    /\ [](\A c \in Consumers : \A r \in Used(c) : inbox[r].status = "delivered")
    /\ [][\A r \in RowIds :
             inbox[r].status = "delivered" => inbox'[r].status = "delivered"]_vars

\* a result was collected from a delivered row while the next fetched row is
\* still pending
C9_Witness ==
    \E c \in Consumers :
        /\ cons[c].pc = "mark"
        /\ cons[c].results # <<>>
        /\ \A r \in Used(c) : inbox[r].status = "delivered"
        /\ inbox[Head(cons[c].rows)].status = "pending"

Fresh(r) == inbox[r].status = "pending" /\ inbox[r].expires_at > clock

\* the row a consumer is about to mark delivered
Selected(c) ==
    IF cons[c].pc = "mark" THEN {Head(cons[c].rows)}
    ELSE IF cons[c].pc = "lateMark" THEN {cons[c].late}
    ELSE {}

C11_PollBound ==
    /\ [](\A c \in Consumers :
            /\ cons[c].iter <= PollCount
            /\ cons[c].pc = "poll" => cons[c].iter < PollCount)
    /\ \A c \in Consumers : (cons[c].pc # "idle") ~> (cons[c].pc = "done")

\* a call ended after 14 poll iterations without any reply
C11_Witness ==
    \E c \in Consumers :
        /\ Polled(c)
        /\ cons[c].iter = PollCount
        /\ cons[c].results = <<>>
        /\ cons[c].none_count = 0

(***************************************************************************)
(* The hook adapters as processes: what one run of on_tool_use.py,         *)
(* on_prompt_submit.py or inject_state.py inserts into cognitive_inbox and *)
(* the code it exits with.                                                 *)
(***************************************************************************)
\* cognitive_inbox rows the hooks may insert in one behaviour
MaxRows == 2

SKIP_TOOLS ==
    {"Read", "Glob", "Grep", "WebSearch", "WebFetch",
     "TaskCreate", "TaskUpdate", "TaskList", "TaskGet",
     "AskUserQuestion", "EnterPlanMode", "ExitPlanMode",
     "NotebookEdit", "TaskOutput", "TaskStop",
     "EnterWorktree", "Skill",
     "mcp__memory__memory_search",
     "mcp__memory__memory_get_project",
     "mcp__memory__memory_list_projects",
     "mcp__memory__memory_get_preferences",
     "mcp__memory__memory_search_errors",
     "mcp__memory__memory_search_patterns",
     "mcp__memory__memory_get_recent_learnings",
     "mcp__memory__memory_get_stats",
     "mcp__memory__memory_get_project_learnings",
     "mcp__memory__memory_get_sessions",
     "mcp__memory__memory_drilldown_list",
     "mcp__memory__memory_drilldown_get",
     "mcp__memory__memory_drilldown_search",
     "mcp__memory__db_describe_schema",
     "mcp__memory__db_select"}

\* tool names of the events: skipped ones, learnt ones, near misses of the
\* skip list and the empty name (also the value of a missing field)
ToolNames ==
    {"Read", "Skill", "mcp__memory__db_select",
     "Bash", "Edit", "read", "mcp__memory__db_execute", ""}

\* what stdin holds: text that is no JSON, a JSON document that is no object,
\* or an object
StdinDocs == {"malformed", "array", "object"}

\* a prompt whose text holds a lone surrogate (the JSON escape \ud83d alone)
Surrogate == "\\ud83d"
PromptTexts == {"", "continue", Surrogate}
HookSessions == {"", "A"}

\* the process exit codes: sys.exit(0) or falling off main, and the
\* interpreter's code for an exception nobody caught
ExitOk == 0
ExitUncaught == 1

ToolEvents ==
    [doc : StdinDocs, tool_name : ToolNames, session_id : HookSessions]

PromptEvents ==
    [doc : StdinDocs, prompt : PromptTexts, session_id : HookSessions]

\* the last run: which hook, its event, whether the agent was enabled and the
\* database reachable, the table size it found, the rows it inserted, its
\* exit code
HookRun(hook, ev, enabled, db, before, rows, code) ==
    [hook |-> hook, ev |-> ev, enabled |-> enabled, db |-> db,
     before |-> before, rows |-> rows, code |-> code]

NoRun == HookRun("none", [doc |-> "none"], FALSE, FALSE, 0, <<>>, 0)

\* a skip test that compares without regard to case
SkippedAnyCase(tool_name) ==
    tool_name \in SKIP_TOOLS \cup {"read", "skill", "glob", "grep"}

\* if tool_name in SKIP_TOOLS
Skipped(tool_name) == tool_name \in SKIP_TOOLS

\* INSERT INTO cognitive_inbox (session_id, message_type, payload, status)
\* VALUES (%s, 'tool_use', %s, 'pending')
ToolUseRow(ev) ==
    [session_id |-> ev.session_id, message_type |-> "tool_use",
     tool_name |-> ev.tool_name, status |-> "pending"]

\* VALUES (%s, 'prompt_context', %s, 'pending')
PromptRow(ev) ==
    [session_id |-> ev.session_id, message_type |-> "prompt_context",
     tool_name |-> "", status |-> "pending"]

\* on_tool_use.py main: the rows inserted and the exit code
ToolUseOutcome(ev, learner, db) ==
    IF ~learner THEN <<<<>>, ExitOk>>
    ELSE IF ev.doc = "malformed" THEN <<<<>>, ExitOk>>
    ELSE IF ev.doc = "array" THEN <<<<>>, ExitUncaught>>
    ELSE IF ev.tool_name = "" \/ ev.session_id = "" THEN <<<<>>, ExitOk>>
    ELSE IF Skipped(ev.tool_name) THEN <<<<>>, ExitOk>>
    ELSE IF ~db THEN <<<<>>, ExitOk>>
    ELSE <<<<ToolUseRow(ev)>>, ExitOk>>

\* on_prompt_submit.py main; fault is an exception raised after the job was
\* inserted (in cleanup, the late-arrival check, polling or printing)
PromptOutcome(ev, retriever, db, fault) ==
    IF ~retriever THEN <<<<>>, ExitOk>>
    ELSE IF ev.doc = "malformed" THEN <<<<>>, ExitOk>>
    ELSE IF ev.doc = "array" THEN <<<<>>, ExitUncaught>>
    ELSE IF ev.prompt = "" \/ ev.session_id = "" THEN <<<<>>, ExitOk>>
    ELSE IF ev.prompt = Surrogate THEN <<<<>>, ExitUncaught>>
    ELSE IF ~db THEN <<<<>>, ExitOk>>
    ELSE <<<<PromptRow(ev)>>, ExitOk>>

\* inject_state.py main: every statement is inside the try whose handler
\* logs and exits 0; no cognitive_inbox row is written
InjectOutcome(new_session_id, db, found, fault) == <<<<>>, ExitOk>>

HooksInit ==
    /\ ks = <<>>
    /\ sessions = <<>>
    /\ child = <<>>
    /\ reader = <<>>
    /\ call = <<>>
    /\ snow = 0
    /\ pl = <<>>
    /\ plan = <<>>
    /\ srv = <<>>
    /\ sver = <<>>
    /\ mig = <<>>
    /\ wnow = 0
    /\ pty = <<>>
    /\ wbuf = <<>>
    /\ snd = <<>>
    /\ sess = <<>>
    /\ rd = <<>>
    /\ ctx = <<>>
    /\ sstate = <<>>
    /\ tailf = <<>>
    /\ ec = <<>>
    /\ tools = <<>>
    /\ kindex = {}
    /\ launched = 0
    /\ tl = <<>>
    /\ cinbox = <<>>
    /\ hk = NoRun
    /\ orch = <<>>
    /\ marker = None
    /\ inj = <<>>
    /\ mIn = <<>>
    /\ mOut = <<>>
    /\ clock = 0
    /\ jobs = <<>>
    /\ inbox = <<>>
    /\ cons = <<>>

\* one PostToolUse event is handled
OnToolUse(ev, learner, db) ==
    /\ Len(cinbox) < MaxRows
    /\ LET o == ToolUseOutcome(ev, learner, db)
       IN /\ cinbox' = cinbox \o o[1]
          /\ hk' = HookRun("PostToolUse", ev, learner, db, Len(cinbox),
                           o[1], o[2])
    /\ UNCHANGED kOthers

\* one UserPromptSubmit event is handled
OnPromptSubmit(ev, retriever, db, fault) ==
    /\ Len(cinbox) < MaxRows
    /\ LET o == PromptOutcome(ev, retriever, db, fault)
       IN /\ cinbox' = cinbox \o o[1]
          /\ hk' = HookRun("UserPromptSubmit", ev, retriever, db,
                           Len(cinbox), o[1], o[2])
    /\ UNCHANGED kOthers

\* one SessionStart (clear or compact) is handled
OnSessionStart(new_session_id, db, found, fault) ==
    /\ Len(cinbox) < MaxRows
    /\ LET o == InjectOutcome(new_session_id, db, found, fault)
       IN /\ cinbox' = cinbox \o o[1]
          /\ hk' = HookRun("SessionStart",
                           [doc |-> "argv", session_id |-> new_session_id],
                           TRUE, db, Len(cinbox), o[1], o[2])
    /\ UNCHANGED kOthers

HooksNext ==
    \/ \E ev \in ToolEvents, learner \in BOOLEAN, db \in BOOLEAN :
          OnToolUse(ev, learner, db)
    \/ \E ev \in PromptEvents, retriever \in BOOLEAN, db \in BOOLEAN,
          fault \in BOOLEAN : OnPromptSubmit(ev, retriever, db, fault)
    \/ \E id \in HookSessions, db \in BOOLEAN, found \in BOOLEAN,
          fault \in BOOLEAN : OnSessionStart(id, db, found, fault)

SpecHooks == HooksInit /\ [][HooksNext]_vars

\* ---------------------------------------------------------------------------
\* Properties of the hook adapters
\* ---------------------------------------------------------------------------

\* the last run was a PostToolUse whose stdin held an object
ToolRun == hk.hook = "PostToolUse" /\ hk.ev.doc = "object"

\* C12: a PostToolUse event whose tool_name is in the skip list inserts no
\* cognitive_inbox row; any other event with non-empty tool_name and
\* session_id (learner enabled, database reachable) inserts exactly one row,
\* of type tool_use and status pending, for its session.
C12_SkipList ==
    /\ cinbox = SubSeq(cinbox, 1, hk.before) \o hk.rows
    /\ ToolRun =>
          /\ hk.ev.tool_name \in SKIP_TOOLS => hk.rows = <<>>
          /\ /\ hk.ev.tool_name \notin SKIP_TOOLS
             /\ hk.ev.tool_name # ""
             /\ hk.ev.session_id # ""
             /\ hk.enabled
             /\ hk.db
             => hk.rows = <<[session_id |-> hk.ev.session_id,
                             message_type |-> "tool_use",
                             tool_name |-> hk.ev.tool_name,
                             status |-> "pending"]>>

\* a tool whose name differs from a skipped one only by case left one row
\* next to the row of an earlier event
C12_Witness ==
    /\ ToolRun
    /\ hk.ev.tool_name = "read"
    /\ hk.before = 1
    /\ Len(cinbox) = 2

\* C13: the UserPromptSubmit, PostToolUse and SessionStart hooks exit with
\* code 0 on every path.
C13_AlwaysExitZero == hk.code = ExitOk

(***************************************************************************)
(* The tool registry: aidam_create_tool (register) and aidam_use_tool      *)
(* (execute), the generated_tools table, its knowledge_index entries and   *)
(* the file system under and around the tool root.                         *)
(***************************************************************************)
\* segments of the file_path argument
MaxDepth == 3
\* the largest usage_count followed
MaxUses == 2

\* path segments, as their characters
SegHome == <<"h">>
SegRoot == <<"g", "t">>
SegSibling == <<"g", "t", "2">>
SegScript == <<"o", "k">>
SegLink == <<"l", "n">>
SegUp == <<".", ".">>
Segments == {SegHome, SegRoot, SegSibling, SegScript, SegLink, SegUp}

\* os.path.expanduser("~/.claude/generated_tools")
ToolRoot == <<SegHome, SegRoot>>

\* the symbolic links of the file system: one inside the tool root that
\* points out of it
LinkTarget(p) == IF p = ToolRoot \o <<SegLink>> THEN <<SegHome>> ELSE p

\* the files and directories that exist: the tool root with one script, and
\* a sibling directory whose name begins like the tool root's, with a script
Existing ==
    {<<>>, <<SegHome>>, ToolRoot, ToolRoot \o <<SegScript>>,
     <<SegHome, SegSibling>>, <<SegHome, SegSibling, SegScript>>}

\* os.path.realpath: ".." and symbolic links are resolved from the left
RECURSIVE Resolve(_, _)
Resolve(done, rest) ==
    IF rest = <<>> THEN done
    ELSE IF Head(rest) = SegUp
         THEN Resolve(IF done = <<>> THEN <<>>
                      ELSE SubSeq(done, 1, Len(done) - 1), Tail(rest))
         ELSE Resolve(LinkTarget(Append(done, Head(rest))), Tail(rest))

RealPath(segs) == Resolve(<<>>, segs)

\* the string of an absolute path
RECURSIVE PathStr(_)
PathStr(segs) ==
    IF segs = <<>> THEN <<>> ELSE <<"/">> \o Head(segs) \o PathStr(Tail(segs))

\* real_path.startswith(allowed_dir), on the characters of both
StartsWith(real_path, allowed_dir) ==
    MatchAt(PathStr(real_path), PathStr(allowed_dir), 1)

\* os.path.realpath(os.path.expanduser("~/.claude/generated_tools"))
AllowedDir == RealPath(ToolRoot)

\* the segment lists of at most n segments taken from S
Upto(S, n) == UNION {[1..k -> S] : k \in 0..n}

\* a file_path argument or column: an absolute path below the home directory
\* or a relative path, of MaxDepth segments at most
FilePaths ==
    {[abs |-> TRUE, segs |-> <<SegHome>> \o s] :
        s \in Upto(Segments \ {SegHome}, MaxDepth - 1)}
    \cup {[abs |-> FALSE, segs |-> s] :
             s \in Upto(Segments \ {SegHome, SegRoot}, MaxDepth) \ {<<>>}}

\* if not os.path.isabs(file_path): file_path = os.path.join(root, file_path)
JoinRoot(fp) == IF fp.abs THEN fp.segs ELSE ToolRoot \o fp.segs

\* os.path.exists: the path is resolved, links followed
Exists(segs) == RealPath(segs) \in Existing

\* the length of the longest common prefix of two segment lists
RECURSIVE Common(_, _)
Common(a, b) ==
    IF a = <<>> \/ b = <<>> \/ Head(a) # Head(b) THEN 0
    ELSE 1 + Common(Tail(a), Tail(b))

\* os.path.relpath(real_path, root)
RelPath(real_path, root) ==
    LET n == Common(real_path, root)
    IN [abs |-> FALSE,
        segs |-> [i \in 1..(Len(root) - n) |-> SegUp]
                    \o SubSeq(real_path, n + 1, Len(real_path))]

\* a check that only asks for an existing file or directory
PathExistsOnly(real_path) == real_path \in Existing

\* if not real_path.startswith(allowed_dir): return the Security error
PathAllowed(real_path) == StartsWith(real_path, AllowedDir)

RegNames == {"t1"}
Languages == {"bash", "python", "javascript"}

NoTool == [present |-> FALSE]

\* a row of generated_tools; last_used_at is NULL (None) until the first
\* UPDATE of the usage statistics and the time of the last one afterwards
ToolRow(fp, language, active, uses) ==
    [present |-> TRUE, file_path |-> fp, language |-> language,
     is_active |-> active, usage_count |-> uses, last_used_at |-> None]

\* an UPDATE of the counter alone: SET usage_count = usage_count + 1
\* WHERE name = %s
UsageCounted(rows, name) ==
    [rows EXCEPT ![name].usage_count = @ + 1]
\* UPDATE generated_tools SET usage_count = usage_count + 1,
\* last_used_at = CURRENT_TIMESTAMP WHERE name = %s
UsageUpdated(rows, name) ==
    [rows EXCEPT ![name].usage_count = @ + 1,
                 ![name].last_used_at = "CURRENT_TIMESTAMP"]

\* rows that an earlier registration left: an absolute path, a path through
\* a link that was made afterwards, a deactivated tool
LegacyRows ==
    {ToolRow([abs |-> TRUE, segs |-> ToolRoot \o <<SegScript>>], "bash", TRUE, 0),
     ToolRow([abs |-> TRUE, segs |-> <<SegHome>>], "bash", TRUE, 0),
     ToolRow([abs |-> FALSE, segs |-> <<SegLink>>], "python", TRUE, 0),
     ToolRow([abs |-> FALSE, segs |-> <<SegScript>>], "bash", FALSE, 0)}

\* the two servers that have the tool handlers
Servers == {"aidam", "memory"}
PythonExe == "C:/Users/user/AppData/Local/Programs/Python/Python312/python.exe"

\* cmd[0] of aidam_use_tool in aidam_mcp_server.py
LauncherAidam(language) ==
    IF language = "python" THEN "python"
    ELSE IF language = "javascript" THEN "node"
    ELSE "bash"
\* cmd[0] of aidam_use_tool in memory_mcp_server.py
LauncherMemory(language) ==
    IF language = "python" THEN PythonExe ELSE "bash"
Launcher(server, language) ==
    IF server = "aidam" THEN LauncherAidam(language)
    ELSE LauncherMemory(language)

\* the last call: the operation, the path it resolved (if it came to resolve
\* one), the envelope it returned, the server that ran it and the launcher
\* of the subprocess, if one was started; for a registration, whether it
\* committed the generated_tools row and whether it upserted the index entry
ToolCall(op, name, resolved, real, result) ==
    [op |-> op, name |-> name, resolved |-> resolved,
     real |-> real, result |-> result, server |-> "aidam", cmd |-> None,
     wrote |-> FALSE, indexed |-> FALSE]

NoCall == ToolCall("none", "", FALSE, <<>>, "none")

ToolsInit ==
    /\ ks = <<>>
    /\ sessions = <<>>
    /\ child = <<>>
    /\ reader = <<>>
    /\ call = <<>>
    /\ snow = 0
    /\ pl = <<>>
    /\ plan = <<>>
    /\ srv = <<>>
    /\ sver = <<>>
    /\ mig = <<>>
    /\ wnow = 0
    /\ pty = <<>>
    /\ wbuf = <<>>
    /\ snd = <<>>
    /\ sess = <<>>
    /\ rd = <<>>
    /\ ctx = <<>>
    /\ sstate = <<>>
    /\ tailf = <<>>
    /\ ec = <<>>
    /\ tools \in [RegNames -> {NoTool} \cup LegacyRows]
    /\ kindex = {}
    /\ launched = 0
    /\ tl = NoCall
    /\ cinbox = <<>>
    /\ hk = <<>>
    /\ orch = <<>>
    /\ marker = None
    /\ inj = <<>>
    /\ mIn = <<>>
    /\ mOut = <<>>
    /\ clock = 0
    /\ jobs = <<>>
    /\ inbox = <<>>
    /\ cons = <<>>

\* what the database does to a registration: both statements succeed, the
\* INSERT raises, or the upsert of the index entry raises
DbOutcomes == {"ok", "insert raises", "index raises"}

\* mem.upsert_knowledge_index(source_table='generated_tools', ...,
\* domain='generated-tools', title=tool_name, ...)
upsert_knowledge_index(index, title) == index \cup {title}

\* INSERT INTO generated_tools ... ON CONFLICT (name) DO UPDATE SET ...,
\* is_active=TRUE, committed by execute_insert
UpsertTool(rows, name, rel_path, language) ==
    [rows EXCEPT ![name] =
        [ToolRow(rel_path, language, TRUE,
                 IF @.present THEN @.usage_count ELSE 0)
         EXCEPT !.last_used_at = IF rows[name].present
                                 THEN rows[name].last_used_at ELSE None]]

\* aidam_create_tool: the path check, the upsert into generated_tools, which
\* execute_insert commits, and then the knowledge_index entry; an exception
\* of either statement ends the call with an error text
Register(name, fp, language, db) ==
    LET file_path == JoinRoot(fp)
        real_path == RealPath(file_path)
        done(result) == ToolCall("register", name, TRUE, real_path, result)
    IN /\ IF ~PathAllowed(real_path)
          THEN /\ tl' = done("security")
               /\ UNCHANGED <<tools, kindex>>
          ELSE IF real_path \notin Existing
          THEN /\ tl' = done("missing")
               /\ UNCHANGED <<tools, kindex>>
          ELSE IF db = "insert raises"
          THEN /\ tl' = done("error")
               /\ UNCHANGED <<tools, kindex>>
          ELSE /\ tools' = UpsertTool(tools, name,
                                      RelPath(real_path, ToolRoot), language)
               /\ IF db = "index raises"
                  THEN /\ kindex' = kindex
                       /\ tl' = [done("error") EXCEPT !.wrote = TRUE]
                  ELSE /\ kindex' = upsert_knowledge_index(kindex, name)
                       /\ tl' = [done("created") EXCEPT !.wrote = TRUE,
                                                        !.indexed = TRUE]
       /\ UNCHANGED <<launched, tOthers>>

\* aidam_use_tool of either server: lookup, path checks, the launcher,
\* subprocess.run, usage statistics
Execute(server, name, outcome) ==
    LET row == tools[name]
        file_path == JoinRoot(row.file_path)
        real_path == RealPath(file_path)
        done(resolved, real, result) ==
            [ToolCall("execute", name, resolved, real, result)
                EXCEPT !.server = server]
    IN /\ IF ~row.present \/ ~row.is_active
          THEN /\ tl' = done(FALSE, <<>>, "not found")
               /\ UNCHANGED <<tools, launched>>
          ELSE IF ~Exists(file_path)
          THEN /\ tl' = done(TRUE, real_path, "missing")
               /\ UNCHANGED <<tools, launched>>
          ELSE IF ~PathAllowed(real_path)
          THEN /\ tl' = done(TRUE, real_path, "security")
               /\ UNCHANGED <<tools, launched>>
          ELSE /\ tl' = [done(TRUE, real_path, outcome)
                           EXCEPT !.cmd = Launcher(server, row.language)]
               /\ launched' = IF outcome = "launch error" THEN launched
                              ELSE 1
               /\ IF outcome = "ran"
                  THEN /\ row.usage_count < MaxUses
                       /\ tools' = UsageUpdated(tools, name)
                  ELSE tools' = tools
       /\ UNCHANGED <<kindex, tOthers>>

ToolsNext ==
    \/ \E name \in RegNames, fp \in FilePaths, language \in Languages,
          db \in DbOutcomes : Register(name, fp, language, db)
    \/ \E server \in Servers, name \in RegNames,
          outcome \in {"ran", "timeout", "launch error"} :
          Execute(server, name, outcome)

SpecTools == ToolsInit /\ [][ToolsNext]_vars

\* C14: a register or execute call whose canonical path does not start with
\* the canonical tool root returns an error and leaves generated_tools,
\* knowledge_index and usage_count as they were and launches no subprocess.
C14_PathEscapeRejected ==
    [][/\ tl'.resolved
       /\ ~MatchAt(PathStr(tl'.real), PathStr(RealPath(ToolRoot)), 1)
       => /\ tl'.result \in {"security", "missing"}
          /\ tools' = tools
          /\ kindex' = kindex
          /\ launched' = launched]_vars

\* an execute call was refused for a row whose path leaves the tool root
\* through a link
C14_Witness ==
    /\ tl.op = "execute"
    /\ tl.result = "security"
    /\ tl.real = <<SegHome>>
    /\ launched = 0

\* the canonical path is the tool root or lies below it in the directory
\* tree
InsideRoot(real_path) ==
    Common(real_path, AllowedDir) = Len(AllowedDir)

\* C40: a register or execute call whose canonical path is not inside the
\* tool root, a sibling directory whose name begins with the root's name
\* included, returns an error, leaves generated_tools and knowledge_index as
\* they were and launches no subprocess
C40_OnlyInsideRoot ==
    [][/\ tl'.resolved
       /\ ~InsideRoot(tl'.real)
       => /\ tl'.result \in {"security", "missing"}
          /\ tools' = tools
          /\ kindex' = kindex
          /\ launched' = launched]_vars

\* the interpreter a launcher is, and the one the statement names for a
\* language
Interpreter(cmd) == IF cmd = PythonExe THEN "python" ELSE cmd
ByLanguage(language) ==
    CASE language = "python" -> "python"
      [] language = "javascript" -> "node"
      [] language = "bash" -> "bash"

\* C34: whichever server ran a tool, the launcher of the subprocess is the
\* interpreter of the row's language (python, node, bash), the one the
\* other server would have chosen for that row as well
C34_SameLauncher ==
    (tl.op = "execute" /\ tl.cmd # None)
    => LET language == tools[tl.name].language
       IN  /\ Interpreter(tl.cmd) = ByLanguage(language)
           /\ Interpreter(LauncherAidam(language))
                  = Interpreter(LauncherMemory(language))

\* C35: a register call has committed the generated_tools row if and only
\* if it has upserted the knowledge_index entry, and a register call that
\* does not report success has left generated_tools as it was
C35_RegisterTogether ==
    [][(tl'.op = "register" /\ (tl' # tl \/ tools' # tools))
       => /\ tl'.wrote <=> tl'.indexed
          /\ tl'.result # "created" => (~tl'.wrote /\ tools' = tools)]_vars

MaxMsgs == 160
\* number of session_state rows the session may hold
MaxStates == 2

max_tail == 80000
max_tail_chars == 80000
\* content[:500] and b['text'][:500] in emergency_compact.py
EmergencyCut == 500
\* content[:3000] and combined[:3000] in refresh_tail.py
RefreshCut == 3000
\* len("[USER] "), len("[CLAUDE] "), len("[TOOLS] "), len('\n\n')
UserTag == 7
ClaudeTag == 9
ToolsTag == 8
SepLen == 2

EntryKinds == {"user", "text", "tool_use"}
ContentLens == {0, 493, 3000}
Entries == [kind : EntryKinds, len : ContentLens]
Counts == {0, MaxMsgs}
Run(n, e) == [i \in 1..n |-> e]
\* the transcripts: a run of equal entries, or none, and a last entry
Transcripts ==
    {Append(Run(n, e1), e2) : n \in Counts, e1 \in Entries, e2 \in Entries}

CutTo(n, cap) == IF n < cap THEN n ELSE cap

\* the length of the message emergency compaction makes of an entry, 0 when
\* it makes none: a user string is cut to 500 and tagged, every text block
\* of an assistant entry is cut to 500 and tagged, a tool_use block is only
\* counted
EmergencyMessage(e) ==
    IF e.kind = "user" THEN IF e.len = 0 THEN 0
                            ELSE UserTag + CutTo(e.len, EmergencyCut)
    ELSE IF e.kind = "text" THEN ClaudeTag + CutTo(e.len, EmergencyCut)
    ELSE 0

\* the length of the chunk tail refresh makes of an entry, 0 when it makes
\* none: texts are cut to 3000, a named tool_use block gives a [TOOLS] line
RefreshChunk(e) ==
    IF e.kind = "user" THEN IF e.len = 0 THEN 0
                            ELSE UserTag + CutTo(e.len, RefreshCut)
    ELSE IF e.kind = "text" THEN ClaudeTag + CutTo(e.len, RefreshCut)
    ELSE IF e.len = 0 THEN 0 ELSE ToolsTag + e.len

\* all_messages / all_chunks: the messages made of the entries of a
\* transcript, in order; made[i] is the length of the message made of entry
\* i, 0 when none was made
AllChunks(made) == SelectSeq(made, LAMBDA n : n # 0)

\* user_messages of emergency compaction
UserMessages(t) == SelectSeq(t, LAMBDA e : e.kind = "user" /\ e.len # 0)

\* the lengths of chunks[lo..hi] added up, by halves
RECURSIVE SumLen(_, _, _)
SumLen(chunks, lo, hi) ==
    IF lo > hi THEN 0
    ELSE IF lo = hi THEN chunks[lo]
    ELSE LET mid == (lo + hi) \div 2
         IN  SumLen(chunks, lo, mid) + SumLen(chunks, mid + 1, hi)

\* one pass of the loop over reversed(all_messages): st.i is the message
\* looked at, st.total_chars the length counted so far, st.stopped whether
\* the loop has left through break
TailStep(chunks, st, limit) ==
    IF st.stopped \/ st.i = 0 THEN st
    ELSE IF st.total_chars + chunks[st.i] > limit
         THEN [st EXCEPT !.stopped = TRUE]
    ELSE [i |-> st.i - 1, total_chars |-> st.total_chars + chunks[st.i],
          stopped |-> FALSE]

\* n passes of the loop, by halves
RECURSIVE TailSteps(_, _, _, _)
TailSteps(chunks, st, limit, n) ==
    IF n = 0 THEN st
    ELSE IF n = 1 THEN TailStep(chunks, st, limit)
    ELSE LET half == TailSteps(chunks, st, limit, n \div 2)
         IN  IF half.stopped THEN half
             ELSE TailSteps(chunks, half, limit, n - (n \div 2))

\* tail_messages / tail_chunks when the loop is over
TailChunks(chunks, limit) ==
    LET start == [i |-> Len(chunks), total_chars |-> 0, stopped |-> FALSE]
        end == TailSteps(chunks, start, limit, Len(chunks))
    IN  SubSeq(chunks, end.i + 1, Len(chunks))

\* len('\n\n'.join(chunks))
JoinLen(chunks) ==
    IF chunks = <<>> THEN 0
    ELSE SumLen(chunks, 1, Len(chunks)) + SepLen * (Len(chunks) - 1)

\* what a tail is remembered by: its chunks' lengths summed, the number of
\* chunks, the length of the joined text, and whether chunks were left out
RawTail(chunks, limit) ==
    LET kept == TailChunks(chunks, limit)
    IN  [chars |-> SumLen(kept, 1, Len(kept)), chunks |-> Len(kept),
         len |-> JoinLen(kept), cut |-> Len(kept) < Len(chunks)]

\* extract_state_from_transcript: the raw tail of every transcript
extract_state_from_transcript ==
    [t \in Transcripts |->
        RawTail(AllChunks([i \in 1..Len(t) |-> EmergencyMessage(t[i])]),
                max_tail)]

\* extract_tail_from_transcript: the tail of every transcript
extract_tail_from_transcript ==
    [t \in Transcripts |->
        RawTail(AllChunks([i \in 1..Len(t) |-> RefreshChunk(t[i])]),
                max_tail_chars)]

\* sys.argv[1] of the scripts, and a session that ended before
ThisSession == "s"
OtherSession == "other"
\* a row of session_state of the session the scripts are run for
StateRow(version, raw_tail_path) ==
    [session_id |-> ThisSession, version |-> version,
     raw_tail_path |-> raw_tail_path, state_text |-> "summary"]
\* the last row of the other session
OtherRow ==
    [session_id |-> OtherSession, version |-> MaxStates + 1,
     raw_tail_path |-> "compactor", state_text |-> "summary"]
\* WHERE session_id = %s
OfSession(rows) == SelectSeq(rows, LAMBDA row : row.session_id = ThisSession)
\* SELECT MAX(version) FROM session_state WHERE session_id = %s
MaxVersion(rows) ==
    IF OfSession(rows) = <<>> THEN 0
    ELSE CHOOSE v \in {rows[i].version : i \in 1..Len(rows)} :
            /\ \E i \in 1..Len(rows) :
                  rows[i].session_id = ThisSession /\ rows[i].version = v
            /\ \A i \in 1..Len(rows) :
                  rows[i].session_id = ThisSession => rows[i].version <= v

\* an UPDATE without the version condition: SET raw_tail_path = %s
\* WHERE session_id = %s
UpdateTailPathAll(rows, tail_path) ==
    [i \in 1..Len(rows) |->
        IF rows[i].session_id = ThisSession
        THEN [rows[i] EXCEPT !.raw_tail_path = tail_path] ELSE rows[i]]
\* UPDATE session_state SET raw_tail_path = %s WHERE session_id = %s AND
\* version = (SELECT MAX(version) FROM session_state WHERE session_id = %s)
UpdateTailPath(rows, tail_path) ==
    [i \in 1..Len(rows) |->
        IF /\ rows[i].session_id = ThisSession
           /\ rows[i].version = MaxVersion(rows)
        THEN [rows[i] EXCEPT !.raw_tail_path = tail_path] ELSE rows[i]]

NoTail == [chars |-> 0, chunks |-> 0, len |-> 0, cut |-> FALSE]
ScriptRun(script, outcome, code, before, tail) ==
    [script |-> script, outcome |-> outcome, code |-> code,
     before |-> before, tail |-> tail]
\* what stops a run early: too few arguments, no file at transcript_path,
\* or a database that cannot be reached
Faults == {"none", "usage", "no transcript", "database"}

\* the states the compactor saved before: versions 1..n, after the row of
\* another session if there is one; tailf is the set of tail files written,
\* ec the last run
CompactInit ==
    /\ ks = <<>>
    /\ sessions = <<>>
    /\ child = <<>>
    /\ reader = <<>>
    /\ call = <<>>
    /\ snow = 0
    /\ pl = <<>>
    /\ plan = <<>>
    /\ srv = <<>>
    /\ sver = <<>>
    /\ mig = <<>>
    /\ wnow = 0
    /\ pty = <<>>
    /\ wbuf = <<>>
    /\ snd = <<>>
    /\ sess = <<>>
    /\ rd = <<>>
    /\ ctx = <<>>
    /\ sstate \in {others \o [i \in 1..n |-> StateRow(i, "compactor")] :
                      n \in 0..MaxStates, others \in {<<>>, <<OtherRow>>}}
    /\ tailf = {}
    /\ ec = ScriptRun("none", "none", 0, <<>>, NoTail)
    /\ tools = <<>>
    /\ kindex = {}
    /\ launched = 0
    /\ tl = <<>>
    /\ cinbox = <<>>
    /\ hk = <<>>
    /\ orch = <<>>
    /\ marker = None
    /\ inj = <<>>
    /\ mIn = <<>>
    /\ mOut = <<>>
    /\ clock = 0
    /\ jobs = <<>>
    /\ inbox = <<>>
    /\ cons = <<>>

\* emergency_compact.py main; unique tells whether session_state rejects a
\* second row of the same (session_id, version)
EmergencyCompact(fault, t, unique) ==
    LET tail == extract_state_from_transcript[t]
        done(outcome, code) ==
            ScriptRun("emergency", outcome, code, sstate, NoTail)
    IN  IF fault = "usage" THEN ec' = done("usage", ExitUncaught)
                                /\ UNCHANGED <<sstate, tailf>>
        ELSE IF fault = "no transcript"
             THEN ec' = done("no transcript", ExitOk)
                  /\ UNCHANGED <<sstate, tailf>>
        ELSE IF UserMessages(t) = <<>>
             THEN ec' = done("nothing extracted", ExitOk)
                  /\ UNCHANGED <<sstate, tailf>>
        ELSE IF fault = "database"
             THEN ec' = done("save failed", ExitOk)
                  /\ UNCHANGED <<sstate, tailf>>
        ELSE /\ tailf' = tailf \cup {"emergency"}
             /\ IF unique /\ \E i \in 1..Len(sstate) :
                              /\ sstate[i].session_id = ThisSession
                              /\ sstate[i].version = 1
                THEN /\ sstate' = sstate
                     /\ ec' = ScriptRun("emergency", "save failed", ExitOk,
                                        sstate, tail)
                ELSE /\ Len(OfSession(sstate)) < MaxStates
                     /\ sstate' = Append(sstate, StateRow(1, "emergency"))
                     /\ ec' = ScriptRun("emergency", "saved", ExitOk,
                                        sstate, tail)

\* refresh_tail.py main
RefreshTail(fault, t) ==
    LET tail == extract_tail_from_transcript[t]
        done(outcome, code) ==
            ScriptRun("refresh", outcome, code, sstate, NoTail)
    IN  IF fault = "usage" THEN ec' = done("usage", ExitUncaught)
                                /\ UNCHANGED <<sstate, tailf>>
        ELSE IF fault = "no transcript"
             THEN ec' = done("no transcript", ExitOk)
                  /\ UNCHANGED <<sstate, tailf>>
        ELSE IF tail.len = 0
             THEN ec' = done("nothing extracted", ExitOk)
                  /\ UNCHANGED <<sstate, tailf>>
        ELSE IF fault = "database"
             THEN ec' = done("save failed", ExitOk)
                  /\ UNCHANGED <<sstate, tailf>>
        ELSE /\ tailf' = tailf \cup {"fresh"}
             /\ sstate' = UpdateTailPath(sstate, "fresh")
             /\ ec' = ScriptRun("refresh", "saved", ExitOk, sstate, tail)

CompactNext ==
    \/ \E fault \in Faults, t \in Transcripts, unique \in BOOLEAN :
          EmergencyCompact(fault, t, unique) /\ UNCHANGED cOthers
    \/ \E fault \in Faults, t \in Transcripts :
          RefreshTail(fault, t) /\ UNCHANGED cOthers

SpecCompact == CompactInit /\ [][CompactNext]_vars

\* the last run wrote its tail file and executed its statement
Wrote(script) ==
    /\ ec.script = script
    /\ ec.outcome \in {"saved", "save failed"}
    /\ ec.tail.chunks > 0

\* C15: an emergency compaction that extracted a state and reached the
\* database has added one row to the session, and that row's version is the
\* session's former maximum plus one (1 when the session had no state)
C15_NextVersion ==
    Wrote("emergency")
    => /\ Len(sstate) = Len(ec.before) + 1
       /\ sstate[Len(sstate)].version = MaxVersion(ec.before) + 1
       /\ MaxVersion(sstate) > MaxVersion(ec.before)

\* C16: the tail text written to a file by emergency compaction or by tail
\* refresh is never longer than 80 000 characters, separators included
C16_TailCapped ==
    /\ Wrote("emergency") => ec.tail.len <= max_tail
    /\ Wrote("refresh") => ec.tail.len <= max_tail_chars

\* row i of the session has the session's highest version
Highest(rows, i) ==
    /\ rows[i].session_id = ThisSession
    /\ \A j \in 1..Len(rows) :
          rows[j].session_id = ThisSession => rows[j].version <= rows[i].version

\* C25: a tail refresh inserts and deletes no row; the only thing it changes
\* is raw_tail_path in the rows of the session that carry its highest
\* version, which holds the new file after a run that reached the database:
\* versions, state texts, the rows of lower versions and the rows of other
\* sessions stay as they were, and with no row of the session nothing changes
C25_RefreshFrame ==
    ec.script = "refresh"
    => /\ Len(sstate) = Len(ec.before)
       /\ \A i \in 1..Len(sstate) :
             IF Highest(ec.before, i) /\ ec.outcome = "saved"
             THEN sstate[i] = [ec.before[i] EXCEPT !.raw_tail_path = "fresh"]
             ELSE sstate[i] = ec.before[i]

\* a refresh reached the database of a session of two versions, beside the
\* row of another session
C25_Witness ==
    /\ ec.script = "refresh"
    /\ ec.outcome = "saved"
    /\ \E i, j, k \in 1..Len(sstate) :
          /\ Highest(ec.before, i) /\ ec.before[i].raw_tail_path # "fresh"
          /\ sstate[i].raw_tail_path = "fresh"
          /\ sstate[j].session_id = ThisSession
          /\ sstate[j].version < sstate[i].version
          /\ sstate[k].session_id = OtherSession

(***************************************************************************)
(* The context the SessionStart injector assembles (inject_state.py main,  *)
(* after the previous session was found).  Texts are modelled by their     *)
(* lengths; a raw tail is the length of the lines the filter keeps and the *)
(* length of its [TOOLS] and [TOOL_RESULTS] lines.                          *)
(***************************************************************************)
\* highest version of a state read
MaxRead == 10

MAX_CONTEXT_CHARS == 38000
\* the margin and the least room a tail is read for
Margin == 200
TailFloor == 1000
\* len("## RECENT CONVERSATION TAIL\n"), len("...(truncated)...\n\n"),
\* len("\n...(truncated)")
TailTitle == 28
TruncHead == 19
TruncFoot == 15
\* len("[AIDAM Memory: context restored from previous session (v") + len(")]\n\n")
BannerLen == 60

StateLens == {0, 500, 36799, 36800, 37939, 37940, 38000, 38001}
TailLens == {0, 1000, 36000, 37300, 80000}
MetaLens == {0, 300}
RawTails == [kept : TailLens, meta : MetaLens]
TailPaths == {"none", "missing", "readable"}
Versions == 1..MaxRead

\* len(str(version))
StrLen(n) == IF n < 10 THEN 1 ELSE IF n < 100 THEN 2 ELSE 3

NoContext == [emitted |-> FALSE]

\* the context built from a state row: state_text first, then the tail
\* under its title, cut from the beginning to what remains; the whole cut
\* to MAX_CONTEXT_CHARS and marked; the banner in front
BuildContext(state_len, path, tail, version) ==
    LET remaining == MAX_CONTEXT_CHARS - state_len - Margin
        read == path = "readable" /\ remaining > TailFloor
                /\ tail.kept + tail.meta > 0
        cut == tail.kept > remaining
        tail_chars == IF cut THEN remaining ELSE tail.kept
        part == TailTitle + (IF cut THEN TruncHead ELSE 0) + tail_chars
        joined == IF ~read THEN state_len
                  ELSE IF state_len = 0 THEN part
                  ELSE state_len + SepLen + part
        over == joined > MAX_CONTEXT_CHARS
        context == IF over THEN MAX_CONTEXT_CHARS + TruncFoot ELSE joined
    IN  [emitted |-> TRUE, state_len |-> state_len, tail |-> tail,
         tail_read |-> read, tail_cut |-> read /\ cut,
         tail_chars |-> IF read THEN tail_chars ELSE 0,
         context_cut |-> over, context |-> context,
         additionalContext |-> BannerLen + StrLen(version) + context]

ContextInit ==
    /\ ks = <<>>
    /\ sessions = <<>>
    /\ child = <<>>
    /\ reader = <<>>
    /\ call = <<>>
    /\ snow = 0
    /\ pl = <<>>
    /\ plan = <<>>
    /\ srv = <<>>
    /\ sver = <<>>
    /\ mig = <<>>
    /\ wnow = 0
    /\ pty = <<>>
    /\ wbuf = <<>>
    /\ snd = <<>>
    /\ sess = <<>>
    /\ rd = <<>>
    /\ ctx = NoContext
    /\ sstate = <<>>
    /\ tailf = <<>>
    /\ ec = <<>>
    /\ tools = <<>>
    /\ kindex = {}
    /\ launched = 0
    /\ tl = <<>>
    /\ cinbox = <<>>
    /\ hk = <<>>
    /\ orch = <<>>
    /\ marker = None
    /\ inj = <<>>
    /\ mIn = <<>>
    /\ mOut = <<>>
    /\ clock = 0
    /\ jobs = <<>>
    /\ inbox = <<>>
    /\ cons = <<>>

\* a state row was found for the previous session and is injected
InjectState(state_len, path, tail, version) ==
    /\ ctx' = BuildContext(state_len, path, tail, version)
    /\ UNCHANGED iOthers

\* no database, no previous session or no state row: nothing is printed
InjectNothing ==
    /\ ctx' = NoContext
    /\ UNCHANGED iOthers

ContextNext ==
    \/ \E state_len \in StateLens, path \in TailPaths, tail \in RawTails,
          version \in Versions : InjectState(state_len, path, tail, version)
    \/ InjectNothing

SpecContext == ContextInit /\ [][ContextNext]_vars

\* C17: the additionalContext the injector emits is at most 38 000
\* characters long, whatever the lengths of state_text and of the raw tail
C17_ContextCapped ==
    ctx.emitted => ctx.additionalContext <= MAX_CONTEXT_CHARS

(***************************************************************************)
(* The session controller's buffer and session_read                        *)
(* (mcp/session_controller.py).  The buffer of a session is modelled by    *)
(* the number of characters strip_ansi keeps of it and the number it       *)
(* removes; a text cut out of the cleaned buffer is the interval lo..hi of *)
(* the positions it covers (lo included, hi excluded).                     *)
(***************************************************************************)
\* number of chunks the reader thread appends
MaxChunks == 3

DEFAULT_MAX_CHARS == 4000
MAX_CHARS_LIMIT == 20000

ChunkTexts == {1, 4000, 20001}
ChunkEscapes == {0, 7}
MaxCharsArgs == {-1, 0, DEFAULT_MAX_CHARS, MAX_CHARS_LIMIT, 20001}
OffsetArgs == {-1, 0, 1, DEFAULT_MAX_CHARS, 30000}
SessionIds == {"s1", "zz"}

\* strip_ansi: the escape sequences and control characters are removed
strip_ansi(buffer) == buffer.text

\* the indices Python cuts at for text[start:stop], text of length n
PyIndex(n, i) == IF i < 0 THEN (IF n + i < 0 THEN 0 ELSE n + i)
                 ELSE IF i > n THEN n ELSE i
PySlice(n, start, stop) ==
    LET lo == PyIndex(n, start)
        hi == PyIndex(n, stop)
    IN  [lo |-> lo, hi |-> IF hi < lo THEN lo ELSE hi]

\* max_chars as _get_new_output caps it
CapCharsUncapped(max_chars) ==
    IF max_chars <= 0 THEN MAX_CHARS_LIMIT ELSE max_chars
CapChars(max_chars) ==
    LET m == IF max_chars <= 0 THEN MAX_CHARS_LIMIT ELSE max_chars
    IN  IF m < MAX_CHARS_LIMIT THEN m ELSE MAX_CHARS_LIMIT

\* _get_new_output: the text, as the interval of the cleaned buffer it is
_get_new_output(buffer, max_chars, offset) ==
    LET total_chars == strip_ansi(buffer)
        cap == CapChars(max_chars)
    IN  IF offset > 0
        THEN [text |-> PySlice(total_chars, offset, offset + cap),
              total_chars |-> total_chars,
              truncated |-> total_chars > offset + cap]
        ELSE IF total_chars <= cap
        THEN [text |-> [lo |-> 0, hi |-> total_chars],
              total_chars |-> total_chars, truncated |-> FALSE]
        ELSE [text |-> PySlice(total_chars, 0 - cap, total_chars),
              total_chars |-> total_chars, truncated |-> TRUE]

NoSess == [started |-> FALSE]
NoRead == [call |-> "none"]
\* a call of session_read: its arguments, the length of the cleaned buffer
\* when it ran, what it returned and the text the read before it returned
ReadCall(session_id, max_chars, offset, cleaned, out, prev) ==
    [call |-> "session_read", session_id |-> session_id,
     max_chars |-> max_chars, offset |-> offset, cleaned |-> cleaned,
     out |-> out, prev |-> prev]

ReaderInit ==
    /\ ks = <<>>
    /\ sessions = <<>>
    /\ child = <<>>
    /\ reader = <<>>
    /\ call = <<>>
    /\ snow = 0
    /\ pl = <<>>
    /\ plan = <<>>
    /\ srv = <<>>
    /\ sver = <<>>
    /\ mig = <<>>
    /\ wnow = 0
    /\ pty = <<>>
    /\ wbuf = <<>>
    /\ snd = <<>>
    /\ sess = NoSess
    /\ rd = NoRead
    /\ ctx = <<>>
    /\ sstate = <<>>
    /\ tailf = <<>>
    /\ ec = <<>>
    /\ tools = <<>>
    /\ kindex = {}
    /\ launched = 0
    /\ tl = <<>>
    /\ cinbox = <<>>
    /\ hk = <<>>
    /\ orch = <<>>
    /\ marker = None
    /\ inj = <<>>
    /\ mIn = <<>>
    /\ mOut = <<>>
    /\ clock = 0
    /\ jobs = <<>>
    /\ inbox = <<>>
    /\ cons = <<>>

\* do_session_start: session "s1" is spawned with an empty buffer
SessionStart ==
    /\ ~sess.started
    /\ sess' = [started |-> TRUE, text |-> 0, escapes |-> 0, chunks |-> 0]
    /\ UNCHANGED <<rd, sOthers>>

\* _reader_thread: data read from the PTY is appended to the buffer
ReaderAppend(text, escapes) ==
    /\ sess.started
    /\ sess.chunks < MaxChunks
    /\ sess' = [sess EXCEPT !.text = @ + text, !.escapes = @ + escapes,
                            !.chunks = @ + 1]
    /\ UNCHANGED <<rd, sOthers>>

\* what the last session_read of the session returned, if it returned text
LastText ==
    IF rd.call = "session_read" /\ rd.out.found THEN rd.out.text
    ELSE [lo |-> 0, hi |-> 0]

\* do_session_read
SessionRead(session_id, max_chars, offset) ==
    /\ rd' = IF session_id = "s1" /\ sess.started
             THEN ReadCall(session_id, max_chars, offset, strip_ansi(sess),
                           [found |-> TRUE] @@
                               _get_new_output(sess, max_chars, offset),
                           LastText)
             ELSE ReadCall(session_id, max_chars, offset, 0,
                           [found |-> FALSE], LastText)
    /\ UNCHANGED <<sess, sOthers>>

ReaderNext ==
    \/ SessionStart
    \/ \E text \in ChunkTexts, escapes \in ChunkEscapes :
          ReaderAppend(text, escapes)
    \/ \E session_id \in SessionIds, max_chars \in MaxCharsArgs,
          offset \in OffsetArgs : SessionRead(session_id, max_chars, offset)

SpecReader == ReaderInit /\ [][ReaderNext]_vars

\* the last call was a session_read that found the session
DidRead == rd.call = "session_read" /\ rd.out.found
\* the limit of a read of M characters: min(M, 20000), 20000 for M <= 0
ReadLimit(M) == IF M <= 0 \/ M > 20000 THEN 20000 ELSE M

\* C18: a session_read of maxChars = M returns at most min(M, 20000)
\* characters (20000 for M <= 0); with offset 0 and a cleaned buffer longer
\* than that limit it returns exactly the last limit characters of the
\* cleaned buffer; with offset > 0 it returns the characters from offset on,
\* up to the limit or to the end of the cleaned buffer
C18_ReadSlice ==
    DidRead =>
        LET limit == ReadLimit(rd.max_chars)
            total == rd.cleaned
            lo == rd.out.text.lo
            hi == rd.out.text.hi
        IN  /\ 0 <= lo /\ lo <= hi /\ hi <= total
            /\ hi - lo <= limit
            /\ (rd.offset = 0 /\ total > limit)
                  => (hi = total /\ lo = total - limit)
            /\ (rd.offset = 0 /\ total <= limit) => (lo = 0 /\ hi = total)
            /\ (rd.offset > 0 /\ rd.offset <= total)
                  => /\ lo = rd.offset
                     /\ hi = IF rd.offset + limit < total
                             THEN rd.offset + limit ELSE total
            /\ (rd.offset > total) => lo = hi

\* a read of a buffer longer than the limit, from the end and from an offset
C18_Witness ==
    /\ DidRead
    /\ rd.max_chars = 20001
    /\ rd.offset = 0
    /\ rd.cleaned = 24002
    /\ rd.out.text = [lo |-> 4002, hi |-> 24002]

\* C19: a session_read returns no character that the previous session_read
\* of the session returned already
C19_NoRepeat ==
    (DidRead /\ rd.prev.lo < rd.prev.hi)
        => (rd.out.text.hi <= rd.prev.lo \/ rd.prev.hi <= rd.out.text.lo)

(***************************************************************************)
(* Idle framing: one session_send with wait (do_session_send and           *)
(* _wait_for_idle) against the reader thread.  Time is counted in ticks of *)
(* 100 ms; wnow is the clock, pty the child behind the pseudo-terminal,    *)
(* wbuf the session (buffer, last_data_time, alive), snd the call.  A      *)
(* chunk is one line of output: "echo" is the terminal's echo of the       *)
(* message, "quote" a line of the child that contains the message's text,  *)
(* "line" any other line.                                                  *)
(***************************************************************************)
\* number of chunks the child emits after the message
MaxEmit == 2

\* idle_threshold = 4.0, time.sleep(0.3), time.sleep(0.2), in ticks
IdleTicks == 40
PollTicks == 3
TypeTicks == 2

\* timeout = 20 s and timeout = 6 s, in ticks
Timeouts == {60, 200}
\* the child's first chunk comes this long after the carriage return
FirstDelays == {0, 1, 2, 30, 300}
\* and the next ones this long after the one before
Gaps == {1, 40, 41}
ChunkKinds == {"line", "quote"}
Never == 0 - 1

Chunk(id, at, kind) == [id |-> id, at |-> at, kind |-> kind]

\* the echo-suppression pass of do_session_send: the first line holding the
\* message's first 50 characters is dropped; an empty result gives the
\* response back as it was
RECURSIVE DropFirstEcho(_)
DropFirstEcho(lines) ==
    IF lines = <<>> THEN <<>>
    ELSE IF Head(lines).kind \in {"echo", "quote"} THEN Tail(lines)
    ELSE <<Head(lines)>> \o DropFirstEcho(Tail(lines))

ResponseText(response) ==
    LET cleaned == DropFirstEcho(response)
    IN  IF cleaned # <<>> THEN cleaned ELSE response

\* what the buffer holds when the message is sent: nothing, or a line the
\* child printed when it started
Startups == {<<>>, <<Chunk(0 - 1, 0, "line")>>}

\* the call before it is made
NoSend == [pc |-> "idle", timeout |-> 0, wake |-> 0, sent |-> Never,
           start |-> 0, start_pos |-> 0, why |-> "none", response |-> <<>>]

IdleInit ==
    /\ ks = <<>>
    /\ sessions = <<>>
    /\ child = <<>>
    /\ reader = <<>>
    /\ call = <<>>
    /\ snow = 0
    /\ pl = <<>>
    /\ plan = <<>>
    /\ srv = <<>>
    /\ sver = <<>>
    /\ mig = <<>>
    /\ wnow = 0
    /\ pty = [left |-> MaxEmit, due |-> Never, last |-> Never, near |-> TRUE,
              echoed |-> FALSE]
    /\ wbuf \in {[buffer |-> b, last_data_time |-> 0, alive |-> TRUE] :
                  b \in Startups}
    /\ snd = NoSend
    /\ sess = <<>>
    /\ rd = <<>>
    /\ ctx = <<>>
    /\ sstate = <<>>
    /\ tailf = <<>>
    /\ ec = <<>>
    /\ tools = <<>>
    /\ kindex = {}
    /\ launched = 0
    /\ tl = <<>>
    /\ cinbox = <<>>
    /\ hk = <<>>
    /\ orch = <<>>
    /\ marker = None
    /\ inj = <<>>
    /\ mIn = <<>>
    /\ mOut = <<>>
    /\ clock = 0
    /\ jobs = <<>>
    /\ inbox = <<>>
    /\ cons = <<>>

\* do_session_send up to the sleep: last_data_time is set, the message is
\* written
SendWrite(timeout) ==
    /\ snd.pc = "idle"
    /\ wbuf' = [wbuf EXCEPT !.last_data_time = wnow]
    /\ snd' = [snd EXCEPT !.pc = "typed", !.timeout = timeout,
                          !.wake = wnow + TypeTicks]
    /\ UNCHANGED <<wnow, pty, wOthers>>

\* the terminal echoes the message that was written; the reader thread
\* appends the echo
ReaderEcho ==
    /\ snd.pc \in {"typed", "entered", "poll"}
    /\ ~pty.echoed
    /\ wbuf.alive
    /\ pty' = [pty EXCEPT !.echoed = TRUE]
    /\ wbuf' = [wbuf EXCEPT !.buffer = Append(@, Chunk(0, wnow, "echo")),
                            !.last_data_time = wnow]
    /\ UNCHANGED <<wnow, snd, wOthers>>

\* the carriage return is written after the sleep: the message is sent, and
\* the child will answer after delay
SendEnter(delay) ==
    /\ snd.pc = "typed"
    /\ wnow >= snd.wake
    /\ snd' = [snd EXCEPT !.pc = "entered", !.sent = wnow]
    /\ pty' = [pty EXCEPT !.due = wnow + delay]
    /\ UNCHANGED <<wnow, wbuf, wOthers>>

\* _wait_for_idle begins: start and start_pos are taken
WaitBegin ==
    /\ snd.pc = "entered"
    /\ snd' = [snd EXCEPT !.pc = "poll", !.start = wnow,
                          !.start_pos = Len(wbuf.buffer),
                          !.wake = wnow]
    /\ UNCHANGED <<wnow, pty, wbuf, wOthers>>

\* _reader_thread: the child's next chunk is read and appended; the child
\* will emit the one after it, if any, after gap
ReaderChunk(kind, gap) ==
    /\ wbuf.alive
    /\ pty.left > 0
    /\ pty.due = wnow
    /\ wbuf' = [wbuf EXCEPT
                  !.buffer = Append(@, Chunk(MaxEmit + 1 - pty.left, wnow,
                                             kind)),
                  !.last_data_time = wnow]
    /\ pty' = [pty EXCEPT !.left = @ - 1, !.last = wnow,
                          !.due = IF pty.left > 1 THEN wnow + gap ELSE Never,
                          !.near = @ /\ (pty.left > 1 => gap <= IdleTicks)]
    /\ UNCHANGED <<wnow, snd, wOthers>>

\* _reader_thread: EOFError, the child is gone
ReaderEof ==
    /\ wbuf.alive
    /\ pty.left = 0
    /\ wbuf' = [wbuf EXCEPT !.alive = FALSE]
    /\ UNCHANGED <<wnow, pty, snd, wOthers>>

\* the response do_session_send returns when the wait is over
Finished(why) ==
    LET new_output == SubSeq(wbuf.buffer, snd.start_pos + 1,
                             Len(wbuf.buffer))
    IN  [snd EXCEPT !.pc = "done", !.why = why,
                    !.response = ResponseText(new_output)]

\* the test that ends the wait: the buffer has grown and no data has come
\* for idle_threshold
QuietNoGrowth == wnow - wbuf.last_data_time >= IdleTicks
Quiet ==
    /\ Len(wbuf.buffer) > snd.start_pos
    /\ wnow - wbuf.last_data_time >= IdleTicks

\* one pass of the loop of _wait_for_idle
Poll ==
    /\ snd.pc = "poll"
    /\ wnow >= snd.wake
    /\ snd' = IF ~(wnow - snd.start < snd.timeout) THEN Finished("timeout")
              ELSE IF ~wbuf.alive THEN Finished("dead")
              ELSE IF Quiet THEN Finished("idle")
              ELSE [snd EXCEPT !.wake = wnow + PollTicks]
    /\ UNCHANGED <<wnow, pty, wbuf, wOthers>>

\* the times at which something is due
Pending ==
    (IF pty.left > 0 /\ pty.due # Never /\ wbuf.alive THEN {pty.due} ELSE {})
    \cup (IF snd.pc \in {"typed", "poll"} THEN {snd.wake} ELSE {})

\* time passes up to the next thing due
Advance ==
    /\ snd.pc \notin {"entered"}
    /\ Pending # {}
    /\ \A t \in Pending : t > wnow
    /\ wnow' = CHOOSE t \in Pending : \A u \in Pending : t <= u
    /\ UNCHANGED <<pty, wbuf, snd, wOthers>>

IdleNext ==
    \/ \E timeout \in Timeouts : SendWrite(timeout)
    \/ ReaderEcho
    \/ \E delay \in FirstDelays : SendEnter(delay)
    \/ WaitBegin
    \/ \E kind \in ChunkKinds, gap \in Gaps : ReaderChunk(kind, gap)
    \/ ReaderEof
    \/ Poll
    \/ Advance

SpecIdle == IdleInit /\ [][IdleNext]_vars

\* the chunks the child emitted after the message was sent
Emitted == SelectSeq(wbuf.buffer, LAMBDA c : c.id > 0)
InResponse(c) == \E i \in 1..Len(snd.response) : snd.response[i] = c

\* C20: when send(wait) returns before its timeout, every chunk the child
\* emits after the message, each no later than the idle threshold after the
\* one before, is in the response: none of them is still to come and none
\* is left out
C20_IdleFraming ==
    (snd.pc = "done" /\ snd.why = "idle" /\ pty.near /\ wbuf.alive)
    => /\ pty.left = 0
       /\ \A i \in 1..Len(Emitted) : InResponse(Emitted[i])

\* the wait is over in this step
Returns == snd.pc = "poll" /\ snd'.pc = "done"
Grown == Len(wbuf.buffer) > snd.start_pos
TimedOut ==
    /\ wnow - snd.start >= snd.timeout
    /\ wnow - snd.start < snd.timeout + PollTicks

\* C21 (as stated): the wait returns only when the buffer has grown and the
\* last data is at least the threshold old, or when the timeout is over
C21_OnlyIdleOrTimeout ==
    [][Returns => \/ Grown /\ wnow - wbuf.last_data_time >= IdleTicks
                  \/ TimedOut]_vars

\* C21 (amended): the wait returns only when the buffer has grown and the
\* last data is at least the threshold old, or when the timeout is over, or
\* when the child is gone; while it waits, no more than the timeout and one
\* poll interval have passed since it began
C21_ReturnsOnlyWhen ==
    /\ [][Returns => \/ Grown /\ wnow - wbuf.last_data_time >= IdleTicks
                     \/ TimedOut
                     \/ ~wbuf.alive]_vars
    /\ [](snd.pc = "poll" => wnow - snd.start < snd.timeout + PollTicks)

\* a wait that ended at its timeout with a buffer that never grew
C21_Witness ==
    /\ snd.pc = "done"
    /\ snd.why = "timeout"
    /\ Len(wbuf.buffer) = snd.start_pos
    /\ wnow - snd.start >= snd.timeout

\* C39: when session_send(wait) has returned, every chunk the reader thread
\* stored after the message was written (the echo and the chunks of the
\* child) lies in the slice buffer[start_pos:] the response is made of
C39_NothingLost ==
    snd.pc = "done"
    => \A i \in 1..Len(wbuf.buffer) :
          wbuf.buffer[i].id >= 0 => i > snd.start_pos

(***************************************************************************)
(* Scoped migrations (mcp/memory_pg.py execute_scoped_migration).  An SQL  *)
(* text is a sequence of atoms: words, punctuation marks and white-space   *)
(* characters; mig is the last call.                                       *)
(***************************************************************************)
\* number of statements in a migration
MaxStmts == 2

ALLOWED_MIGRATION_TABLES ==
    {"learnings", "patterns", "errors_solutions", "knowledge_details",
     "tools", "commands", "projects", "sessions", "user_preferences",
     "memory_meta", "memory_associations"}

White == {" ", "\n"}
Verbs == {"alter", "DROP", "create"}
TableWords == {"table", "TABLE"}
Blanks == {<<" ">>, <<" ", " ">>, <<"\n">>}
TableNames == {"learnings", "Patterns", "orchestrator_state"}
\* the statements: verb, white space, TABLE, a space and a name; or TRUNCATE
Statements ==
    {<<v>> \o b \o <<t, " ", n>> :
        v \in Verbs, b \in Blanks, t \in TableWords, n \in TableNames}
    \cup {<<"drop", " ", "table">>, <<"truncate", " ", "learnings">>}
RECURSIVE Scripts(_)
Scripts(n) ==
    IF n = 1 THEN Statements
    ELSE Scripts(n - 1)
         \cup {a \o <<";", " ">> \o b : a \in Scripts(n - 1), b \in Statements}
Migrations == Scripts(MaxStmts)
Declared == {<<>>, <<"learnings">>, <<"learnings", "patterns">>,
             <<"orchestrator_state">>, <<"learnings", "orchestrator_state">>}

\* str.lower() of an atom
LowerAtom(a) ==
    CASE a = "DROP" -> "drop"
      [] a = "TABLE" -> "table"
      [] a = "Patterns" -> "patterns"
      [] OTHER -> a
Lower(sql) == [i \in 1..Len(sql) |-> LowerAtom(sql[i])]

\* token in sql_lower
Contains(sql, token) == \E i \in 1..Len(sql) : MatchAt(sql, token, i)

\* sql_lower.split(token)[1:]: what follows each occurrence of token, up to
\* the next occurrence
PartsAfter(sql, token) ==
    LET at == {i \in 1..Len(sql) : MatchAt(sql, token, i)}
        end(i) == IF \E j \in at : j > i
                  THEN (CHOOSE j \in at : j > i /\ \A k \in at : k > i => j <= k)
                       - 1
                  ELSE Len(sql)
    IN  {SubSeq(sql, i + Len(token), end(i)) : i \in at}

\* part.strip().split(): the first run of atoms that are not white space,
\* <<>> when there is none (split() gives an empty list and [0] raises)
FirstWord(part) ==
    LET solid == {i \in 1..Len(part) : part[i] \notin White}
    IN  IF solid = {} THEN <<>>
        ELSE LET from == CHOOSE i \in solid : \A j \in solid : i <= j
                 stops == {i \in from..Len(part) : part[i] \in White}
                 to == IF stops = {} THEN Len(part)
                       ELSE (CHOOSE i \in stops : \A j \in stops : i <= j) - 1
             IN  SubSeq(part, from, to)

Forbidden ==
    {<<"drop", " ", "database">>, <<"truncate">>, <<"alter", " ", "system">>,
     <<"create", " ", "extension">>, <<"drop", " ", "extension">>}
GuardedTokens ==
    {<<"alter", " ", "table">>, <<"create", " ", "table">>,
     <<"drop", " ", "table">>}

InTables(name, tables) == \E i \in 1..Len(tables) : name = <<tables[i]>>
\* the guard over the words after ALTER TABLE, CREATE TABLE and DROP TABLE
OnlyDeclared(tables, sql) ==
    \A token \in GuardedTokens :
        \A part \in PartsAfter(Lower(sql), token) :
            FirstWord(part) # <<>> /\ InTables(FirstWord(part), tables)

\* _assert_scoped_tables: TRUE when nothing is raised
_assert_scoped_tables(tables, sql) ==
    /\ tables # <<>>
    /\ \A i \in 1..Len(tables) : tables[i] \in ALLOWED_MIGRATION_TABLES
    /\ \A word \in Forbidden : ~Contains(Lower(sql), word)
    /\ OnlyDeclared(tables, sql)

NoMigration == [status |-> "none", tables |-> <<>>, sql |-> <<>>, ran |-> <<>>]

MigrationInit ==
    /\ ks = <<>>
    /\ sessions = <<>>
    /\ child = <<>>
    /\ reader = <<>>
    /\ call = <<>>
    /\ snow = 0
    /\ pl = <<>>
    /\ plan = <<>>
    /\ srv = <<>>
    /\ sver = <<>>
    /\ mig = NoMigration
    /\ wnow = 0
    /\ pty = <<>>
    /\ wbuf = <<>>
    /\ snd = <<>>
    /\ sess = <<>>
    /\ rd = <<>>
    /\ ctx = <<>>
    /\ sstate = <<>>
    /\ tailf = <<>>
    /\ ec = <<>>
    /\ tools = <<>>
    /\ kindex = {}
    /\ launched = 0
    /\ tl = <<>>
    /\ cinbox = <<>>
    /\ hk = <<>>
    /\ orch = <<>>
    /\ marker = None
    /\ inj = <<>>
    /\ mIn = <<>>
    /\ mOut = <<>>
    /\ clock = 0
    /\ jobs = <<>>
    /\ inbox = <<>>
    /\ cons = <<>>

\* execute_scoped_migration, one call at a time: the SQL is run when the
\* assertion raises nothing; db tells whether the connection and the
\* statement succeed
execute_scoped_migration(tables, sql, db) ==
    /\ mig.status = "none"
    /\ mig' = IF ~_assert_scoped_tables(tables, sql)
              THEN [status |-> "rejected", tables |-> tables, sql |-> sql,
                    ran |-> <<>>]
              ELSE IF ~db
              THEN [status |-> "failed", tables |-> tables, sql |-> sql,
                    ran |-> <<>>]
              ELSE [status |-> "applied", tables |-> tables, sql |-> sql,
                    ran |-> sql]
    /\ UNCHANGED gOthers

\* the result of the call is returned and the server takes the next call
MigrationReturn ==
    /\ mig.status # "none"
    /\ mig' = NoMigration
    /\ UNCHANGED gOthers

MigrationNext ==
    \/ \E tables \in Declared, sql \in Migrations, db \in BOOLEAN :
          execute_scoped_migration(tables, sql, db)
    \/ MigrationReturn

SpecMigration == MigrationInit /\ [][MigrationNext]_vars

\* the words of an SQL text, lower case
Words(sql) == SelectSeq(Lower(sql), LAMBDA a : a \notin White)
\* the tables an SQL text names right after ALTER TABLE, CREATE TABLE or
\* DROP TABLE
DdlTables(sql) ==
    LET w == Words(sql)
    IN  {w[i + 2] : i \in {j \in 1..(Len(w) - 2) :
                             /\ w[j] \in {"alter", "create", "drop"}
                             /\ w[j + 1] = "table"}}

\* C22: the SQL that a scoped migration ran names, after every ALTER TABLE,
\* CREATE TABLE and DROP TABLE, only tables of the declared list, and that
\* list is a non-empty subset of the whitelist
C22_OnlyDeclaredTables ==
    mig.ran # <<>>
    => /\ mig.tables # <<>>
       /\ \A i \in 1..Len(mig.tables) :
             mig.tables[i] \in ALLOWED_MIGRATION_TABLES
       /\ \A t \in DdlTables(mig.ran) :
             \E i \in 1..Len(mig.tables) : t = mig.tables[i]

(***************************************************************************)
(* The tools of mcp/aidam_mcp_server.py that need a running orchestrator:  *)
(* aidam_retrieve, aidam_learn, aidam_smart_compact and aidam_usage.  One  *)
(* call is followed: srv is its record, sver the versions of the           *)
(* session_state rows of each session, cinbox the trigger rows of          *)
(* cognitive_inbox and jobs its prompt_context rows.                       *)
(***************************************************************************)
\* the highest version a session_state row gets
MaxVer == 2

\* for _ in range(30)
CompactPolls == 30

\* last_heartbeat_at: 0 stands for NULL, which the ORDER BY puts last
HeartBeats == {0, 1, 2}
OrchStates ==
    [status : {"running", "stopped"}, started_at : {1},
     last_heartbeat_at : HeartBeats]

NoOrchestrator == "No running AIDAM orchestrator found"
NoReply == [status |-> "none", error |-> "", new_version |-> 0]
Reply(status) == [NoReply EXCEPT !.status = status]
NoServerCall ==
    [pc |-> "idle", tool |-> "none", session_id |-> None, force |-> FALSE,
     old_version |-> 0, polls |-> 0, out |-> NoReply]

\* ORDER BY version DESC LIMIT 1 over a set of versions, 0 when it is empty
TopVersion(versions) ==
    IF versions = {} THEN 0
    ELSE CHOOSE v \in versions : \A w \in versions : w <= v

\* a poll SELECT without the version condition: WHERE session_id = %s
AnyVersion(versions, old_version) == versions
\* WHERE session_id = %s AND version > %s
NewerVersions(versions, old_version) == {v \in versions : v > old_version}

\* INSERT INTO cognitive_inbox (session_id, message_type, payload, status)
Trigger(session_id, message_type) ==
    [session_id |-> session_id, message_type |-> message_type,
     status |-> "pending"]

\* a row of retrieval_inbox that an earlier call with the same prompt left
LeftRow(session) ==
    [status |-> "pending", session |-> session,
     hash |-> PromptHash("continue"), ctype |-> "memory",
     text |-> ReplyText(<<1, 1>>, "memory"), created_at |-> 0,
     expires_at |-> TTL, job |-> 1]

ServerInit ==
    /\ ks = <<>>
    /\ sessions = <<>>
    /\ child = <<>>
    /\ reader = <<>>
    /\ call = <<>>
    /\ snow = 0
    /\ pl = <<>>
    /\ plan = <<>>
    /\ srv = NoServerCall
    /\ sver \in [Rows -> {{}, {1}}]
    /\ orch \in [Rows -> OrchStates]
    /\ cinbox = <<>>
    /\ clock = 0
    /\ jobs = <<[session |-> "B", hash |-> PromptHash("continue"), at |-> 0]>>
    /\ \E left \in {None} \cup Rows :
          inbox = [r \in RowIds |->
                      IF left # None /\ r = <<1, 1>> THEN LeftRow(left)
                      ELSE NoRow]
    /\ cons = [c \in Consumers |-> ConsIdle]
    /\ mig = <<>>
    /\ wnow = 0
    /\ pty = <<>>
    /\ wbuf = <<>>
    /\ snd = <<>>
    /\ sess = <<>>
    /\ rd = <<>>
    /\ ctx = <<>>
    /\ sstate = <<>>
    /\ tailf = <<>>
    /\ ec = <<>>
    /\ tools = <<>>
    /\ kindex = {}
    /\ launched = 0
    /\ tl = <<>>
    /\ hk = <<>>
    /\ marker = None
    /\ inj = <<>>
    /\ mIn = <<>>
    /\ mOut = <<>>

NoCallYet == srv.pc = "idle" /\ AllIdle

\* if not rows: return format_result({"error": "No running AIDAM
\* orchestrator found. ..."}), the first statements of each of the four tools
McpNoOrchestrator(tool) ==
    /\ NoCallYet
    /\ FindRunning(orch) = {}
    /\ srv' = [NoServerCall EXCEPT !.pc = "done", !.tool = tool,
                             !.out = [NoReply EXCEPT !.status = "error",
                                                     !.error = NoOrchestrator]]
    /\ UNCHANGED <<qOthers, sver>>

\* aidam_learn: a learn_trigger row for the running orchestrator's session
McpLearn ==
    /\ NoCallYet
    /\ \E session_id \in FindRunning(orch) :
          /\ cinbox' = Append(cinbox, Trigger(session_id, "learn_trigger"))
          /\ srv' = [NoServerCall EXCEPT !.pc = "done", !.tool = "aidam_learn",
                                   !.session_id = session_id,
                                   !.out = Reply("queued")]
    /\ UNCHANGED <<kqOthers, hk, sver>>

\* aidam_usage: the usage rows of the running orchestrator's session are read
McpUsage ==
    /\ NoCallYet
    /\ \E session_id \in FindRunning(orch) :
          srv' = [NoServerCall EXCEPT !.pc = "done", !.tool = "aidam_usage",
                                !.session_id = session_id,
                                !.out = Reply("usage")]
    /\ UNCHANGED <<qOthers, sver>>

\* aidam_smart_compact up to its first sleep: without force_summary the
\* status is reported; with it a compactor_trigger row is inserted and the
\* poll loop begins
McpSmartCompact(force_summary) ==
    /\ NoCallYet
    /\ \E session_id \in FindRunning(orch) :
          LET made == [NoServerCall EXCEPT !.tool = "aidam_smart_compact",
                                     !.session_id = session_id,
                                     !.force = force_summary,
                                     !.old_version = TopVersion(sver[session_id])]
          IN  IF force_summary
              THEN /\ cinbox' = Append(cinbox,
                                  Trigger(session_id, "compactor_trigger"))
                   /\ srv' = [made EXCEPT !.pc = "poll"]
              ELSE /\ cinbox' = cinbox
                   /\ srv' = [made EXCEPT !.pc = "done", !.out = Reply("ok")]
    /\ UNCHANGED <<kqOthers, hk, sver>>

\* one iteration of the poll loop: a sleep of one second, then the SELECT;
\* the loop is left at the first row found and after the last iteration
CompactPoll ==
    /\ srv.pc = "poll"
    /\ LET rows == NewerVersions(sver[srv.session_id], srv.old_version)
           polled == [srv EXCEPT !.polls = @ + 1]
       IN  srv' = IF rows # {}
                  THEN [polled EXCEPT !.pc = "done",
                           !.out = [NoReply EXCEPT
                                       !.status = "compacted",
                                       !.new_version = TopVersion(rows)]]
                  ELSE IF polled.polls >= CompactPolls
                  THEN [polled EXCEPT !.pc = "done", !.out = Reply("timeout")]
                  ELSE polled
    /\ UNCHANGED <<qOthers, sver>>

\* a session_state row is inserted by the Compactor agent or by the
\* emergency script while the tool sleeps
StateInserted(session, version) ==
    /\ srv.pc = "poll"
    /\ version \notin sver[session]
    /\ sver' = [sver EXCEPT ![session] = @ \cup {version}]
    /\ UNCHANGED <<qOthers, srv>>

ServerNext ==
    \/ \E tool \in {"aidam_retrieve", "aidam_learn", "aidam_smart_compact",
                    "aidam_usage"} : McpNoOrchestrator(tool)
    \/ McpLearn
    \/ McpUsage
    \/ \E force_summary \in BOOLEAN : McpSmartCompact(force_summary)
    \/ CompactPoll
    \/ \E session \in Rows, version \in 1..MaxVer :
          StateInserted(session, version)
    \/ \E p \in Prompts : srv.pc = "idle" /\ McpRetrieve(p)
    \/ PollFetch("mcp")
    \/ PollMark("mcp")

\* the event loop runs the coroutine of a call again after each sleep
SpecServer == ServerInit /\ [][ServerNext]_vars /\ WF_vars(CompactPoll)

\* the rows of cognitive_inbox of one message type
Triggers(message_type) ==
    SelectSeq(cinbox, LAMBDA row : row.message_type = message_type)
\* the call that is followed is aidam_smart_compact with force_summary
Forced == srv.tool = "aidam_smart_compact" /\ srv.force
Newer == \E v \in sver[srv.session_id] : v > srv.old_version

\* C23: a triggered compaction enqueues exactly one compactor_trigger row and
\* polls at most 30 times; a poll that finds a row above the version seen
\* before the trigger returns "compacted" with that row's version, strictly
\* greater than the old one; a poll that finds none goes on, and the 30th
\* returns "timeout"; the call always returns
C23_TriggeredCompaction ==
    /\ [](Forced => /\ Len(Triggers("compactor_trigger")) = 1
                    /\ srv.polls <= CompactPolls)
    /\ [](Forced /\ srv.pc = "done"
            => \/ /\ srv.out.status = "compacted"
                  /\ srv.out.new_version > srv.old_version
                  /\ srv.out.new_version \in sver[srv.session_id]
               \/ /\ srv.out.status = "timeout"
                  /\ srv.polls = CompactPolls)
    /\ [][Forced /\ srv.pc = "poll" /\ srv' # srv
            => IF Newer
               THEN srv'.pc = "done" /\ srv'.out.status = "compacted"
               ELSE \/ srv'.pc = "poll" /\ srv'.polls < CompactPolls
                    \/ srv'.pc = "done" /\ srv'.out.status = "timeout"]_vars
    /\ (Forced /\ srv.pc = "poll") ~> (srv.pc = "done")

\* a row above the old version arrived during the polls and was returned
C23_Witness ==
    /\ Forced
    /\ srv.pc = "done"
    /\ srv.out.status = "compacted"
    /\ srv.old_version = 1
    /\ srv.out.new_version = 2
    /\ srv.polls > 1

\* the session a call works for: the running orchestrator of the most recent
\* heartbeat
MostRecent(session) ==
    /\ orch[session].status = "running"
    /\ \A r \in Rows :
          orch[r].status = "running"
          => orch[r].last_heartbeat_at <= orch[session].last_heartbeat_at

\* C24: with no running orchestrator each of the four tools returns the error
\* envelope and no table changes: nothing is inserted into cognitive_inbox
\* and no retrieval_inbox row changes; with several running orchestrators the
\* call works for one of the most recent heartbeat
C24_NoOrchestrator ==
    /\ [](FindRunning(orch) = {}
            => /\ cinbox = <<>>
               /\ Len(jobs) = 1
               /\ \A r \in RowIds : inbox[r].status \in {"absent", "pending"}
               /\ cons["mcp"].pc = "idle"
               /\ srv.pc \in {"idle", "done"}
               /\ srv.pc = "done" => /\ srv.out.status = "error"
                                     /\ srv.out.error = NoOrchestrator)
    /\ [][FindRunning(orch) = {}
            => UNCHANGED <<orch, cinbox, jobs, inbox, sver, cons>>]_vars
    /\ [](srv.session_id # None => MostRecent(srv.session_id))
    /\ [](cons["mcp"].session # None => MostRecent(cons["mcp"].session))

\* aidam_retrieve has returned the error while a pending row of its prompt
\* was waiting
C24_Witness ==
    /\ FindRunning(orch) = {}
    /\ srv.pc = "done"
    /\ srv.tool = "aidam_retrieve"
    /\ srv.out.error = NoOrchestrator
    /\ inbox[<<1, 1>>].status = "pending"

(***************************************************************************)
(* The active plan in the refreshed tail (refresh_tail.py                  *)
(* extract_tail_from_transcript).  A chunk is remembered by its tag, the   *)
(* entry it was made of, its length and, for a plan, the plan content's    *)
(* length; plan is the last extraction.                                    *)
(***************************************************************************)
\* the longest run of full-size user messages in a transcript
MaxFill == 27

\* (inp.get('content', '') or '')[:5000]
PlanCut == 5000
\* len("[ACTIVE_PLAN: plan.md]\n")
PlanHead == 23

\* the entries: user strings and assistant entries of a text (0: none) and
\* tool_use blocks; a block is a Write into .claude/plans/ or another tool
PlanWrite(content) == [plan |-> TRUE, len |-> content]
OtherTool(meta) == [plan |-> FALSE, len |-> meta]
UserEntry(len) == [type |-> "user", text |-> len, blocks |-> <<>>]
AssistantEntry(text, blocks) ==
    [type |-> "assistant", text |-> text, blocks |-> blocks]
PlanEntries ==
    {UserEntry(40),
     AssistantEntry(0, <<PlanWrite(100)>>),
     AssistantEntry(200, <<PlanWrite(6000), OtherTool(12)>>),
     AssistantEntry(0, <<OtherTool(30)>>),
     AssistantEntry(0, <<PlanWrite(300), PlanWrite(0)>>)}
ShortRuns ==
    {<<>>} \cup {<<a>> : a \in PlanEntries}
    \cup {<<a, b>> : a \in PlanEntries, b \in PlanEntries}
Fills == {0, MaxFill - 1, MaxFill}
PlanTranscripts ==
    {pre \o Run(n, UserEntry(RefreshCut)) \o post :
        pre \in ShortRuns, n \in Fills, post \in ShortRuns}

PlanChunk(tag, entry, block, len, content) ==
    [tag |-> tag, entry |-> entry, block |-> block, len |-> len,
     content |-> content]

\* all_chunks.pop(i), i counted from 0
Pop(chunks, i) == SubSeq(chunks, 1, i) \o SubSeq(chunks, i + 2, Len(chunks))

\* a plan Write that leaves the earlier plan chunk in place
PlanKeepOld(st, chunk) ==
    [st EXCEPT !.all_chunks = Append(@, chunk),
               !.last_plan_chunk_index = Len(st.all_chunks)]
\* if last_plan_chunk_index >= 0: all_chunks.pop(last_plan_chunk_index);
\* last_plan_chunk_index = len(all_chunks); all_chunks.append(...)
PlanAppend(st, chunk) ==
    LET popped == IF st.last_plan_chunk_index >= 0
                  THEN Pop(st.all_chunks, st.last_plan_chunk_index)
                  ELSE st.all_chunks
    IN  [st EXCEPT !.all_chunks = Append(popped, chunk),
                   !.last_plan_chunk_index = Len(popped)]

\* the loop over the tool_use blocks of entry e, from block k on
RECURSIVE ToolBlocks(_, _, _, _)
ToolBlocks(st, t, e, k) ==
    IF k > Len(t[e].blocks) THEN st
    ELSE LET b == t[e].blocks[k]
         IN  IF b.plan
             THEN ToolBlocks(
                      PlanAppend(st, PlanChunk("ACTIVE_PLAN", e, k,
                                     PlanHead + CutTo(b.len, PlanCut),
                                     CutTo(b.len, PlanCut))),
                      t, e, k + 1)
             ELSE ToolBlocks([st EXCEPT !.tool_metas = @ + b.len
                                            + (IF @ = 0 THEN 0 ELSE 3)],
                             t, e, k + 1)

\* one line of the transcript
PlanEntry(st, t, e) ==
    IF t[e].type = "user"
    THEN IF t[e].text = 0 THEN st
         ELSE [st EXCEPT !.all_chunks =
                  Append(@, PlanChunk("USER", e, 0,
                                      UserTag + CutTo(t[e].text, RefreshCut),
                                      0))]
    ELSE LET text == IF t[e].text = 0 THEN st
                      ELSE [st EXCEPT !.all_chunks =
                               Append(@, PlanChunk("CLAUDE", e, 0,
                                   ClaudeTag + CutTo(t[e].text, RefreshCut),
                                   0))]
             metas == ToolBlocks([text EXCEPT !.tool_metas = 0], t, e, 1)
         IN  IF metas.tool_metas = 0 THEN metas
             ELSE [metas EXCEPT !.all_chunks =
                      Append(@, PlanChunk("TOOLS", e, 0,
                                          ToolsTag + metas.tool_metas, 0))]

\* all_chunks and last_plan_chunk_index after the first n lines
RECURSIVE PlanLines(_, _)
PlanLines(t, n) ==
    IF n = 0
    THEN [all_chunks |-> <<>>, last_plan_chunk_index |-> 0 - 1,
          tool_metas |-> 0]
    ELSE LET before == PlanLines(t, n - 1)
         IN  IF Len(before.all_chunks) >= 0 THEN PlanEntry(before, t, n)
             ELSE before

\* the chunks of the tail: the last chunks that fit into max_tail_chars
PlanTail(all_chunks) ==
    LET lens == [i \in 1..Len(all_chunks) |-> all_chunks[i].len]
        kept == Len(TailChunks(lens, max_tail_chars))
    IN  SubSeq(all_chunks, Len(all_chunks) - kept + 1, Len(all_chunks))

NoExtraction == [t |-> <<>>, all_chunks |-> <<>>, tail_chunks |-> <<>>]

PlanInit ==
    /\ ks = <<>>
    /\ sessions = <<>>
    /\ child = <<>>
    /\ reader = <<>>
    /\ call = <<>>
    /\ snow = 0
    /\ pl = <<>>
    /\ plan = NoExtraction
    /\ srv = <<>>
    /\ sver = <<>>
    /\ mig = <<>>
    /\ wnow = 0
    /\ pty = <<>>
    /\ wbuf = <<>>
    /\ snd = <<>>
    /\ sess = <<>>
    /\ rd = <<>>
    /\ ctx = <<>>
    /\ sstate = <<>>
    /\ tailf = <<>>
    /\ ec = <<>>
    /\ tools = <<>>
    /\ kindex = {}
    /\ launched = 0
    /\ tl = <<>>
    /\ cinbox = <<>>
    /\ hk = <<>>
    /\ orch = <<>>
    /\ marker = None
    /\ inj = <<>>
    /\ mIn = <<>>
    /\ mOut = <<>>
    /\ clock = 0
    /\ jobs = <<>>
    /\ inbox = <<>>
    /\ cons = <<>>

\* extract_tail_from_transcript(transcript_path) of one run of the script
ExtractTail(t) ==
    /\ plan = NoExtraction
    /\ LET all_chunks == PlanLines(t, Len(t)).all_chunks
       IN  plan' = [t |-> t, all_chunks |-> all_chunks,
                    tail_chunks |-> PlanTail(all_chunks)]
    /\ UNCHANGED pOthers

\* the script exits
ExtractDone ==
    /\ plan # NoExtraction
    /\ plan' = NoExtraction
    /\ UNCHANGED pOthers

PlanNext ==
    \/ \E t \in PlanTranscripts : ExtractTail(t)
    \/ ExtractDone

SpecPlan == PlanInit /\ [][PlanNext]_vars

\* the Writes into .claude/plans/ of a transcript, as <<entry, block>>
PlanWrites(t) ==
    {w \in (1..Len(t)) \X (1..2) :
        /\ w[2] <= Len(t[w[1]].blocks)
        /\ t[w[1]].blocks[w[2]].plan}
LastPlanWrite(t) ==
    CHOOSE w \in PlanWrites(t) :
        \A v \in PlanWrites(t) : v[1] < w[1] \/ (v[1] = w[1] /\ v[2] <= w[2])
PlansOf(chunks) == SelectSeq(chunks, LAMBDA c : c.tag = "ACTIVE_PLAN")
OthersOf(chunks) == SelectSeq(chunks, LAMBDA c : c.tag # "ACTIVE_PLAN")
\* chunks stand in the order of the entries they were made of
InOrder(chunks) ==
    \A i, j \in 1..Len(chunks) : i < j => chunks[i].entry <= chunks[j].entry

\* the rule over a list of chunks made of transcript t
ActivePlanRule(t, chunks) ==
    PlanWrites(t) # {}
    => /\ Len(PlansOf(chunks)) = 1
       /\ PlansOf(chunks)[1].entry = LastPlanWrite(t)[1]
       /\ PlansOf(chunks)[1].block = LastPlanWrite(t)[2]
       /\ PlansOf(chunks)[1].content
             = CutTo(t[LastPlanWrite(t)[1]].blocks[LastPlanWrite(t)[2]].len,
                     PlanCut)
       /\ PlansOf(chunks)[1].content <= PlanCut
       /\ InOrder(OthersOf(chunks))

\* C28: when the transcript holds a Write into .claude/plans/, the extracted
\* tail holds exactly one ACTIVE_PLAN chunk, that of the last such Write with
\* at most 5000 characters of its content, and the other chunks keep their
\* order
C28_ActivePlan ==
    plan # NoExtraction => ActivePlanRule(plan.t, plan.tail_chunks)

(***************************************************************************)
(* The payload of a tool_use job (on_tool_use.py main, after the skip      *)
(* list).  A value is known by its name and the length of its JSON text; a *)
(* string is the first len characters of the JSON text of a value; pl is   *)
(* the last run.                                                           *)
(***************************************************************************)
\* the longest JSON text of a value
MaxJson == 20000

MAX_RESPONSE_CHARS == 4000

JsonSizes ==
    {2, 1999, 2000, 2001, 3999, 4000, 4001, 4002, 8000, 8001, MaxJson}
ToolInputs == [name : {"tool_input"}, size : JsonSizes]
ToolResponses == [name : {"tool_response"}, size : JsonSizes]

\* json.dumps(value)
Dumps(value) == [of |-> value.name, len |-> value.size]
\* str[:n]
Prefix(str, n) == [str EXCEPT !.len = CutTo(str.len, n)]

\* the truncation with >= in its test (not the code's)
TruncatedFromLimit(value) ==
    IF Dumps(value).len >= MAX_RESPONSE_CHARS
    THEN [_truncated |-> TRUE,
          _preview |-> Prefix(Dumps(value), MAX_RESPONSE_CHARS \div 2),
          _length |-> Dumps(value).len]
    ELSE value
\* if len(response_str) > MAX_RESPONSE_CHARS: the value gives way to
\* {'_truncated': True, '_preview': response_str[:MAX_RESPONSE_CHARS // 2],
\*  '_length': len(response_str)}
Truncated(value) ==
    IF Dumps(value).len > MAX_RESPONSE_CHARS
    THEN [_truncated |-> TRUE,
          _preview |-> Prefix(Dumps(value), MAX_RESPONSE_CHARS \div 2),
          _length |-> Dumps(value).len]
    ELSE value

NoPayload ==
    [script |-> "none", tool_input |-> <<>>, tool_response |-> <<>>,
     payload |-> <<>>, enqueued |-> FALSE]

PayloadInit ==
    /\ ks = <<>>
    /\ sessions = <<>>
    /\ child = <<>>
    /\ reader = <<>>
    /\ call = <<>>
    /\ snow = 0
    /\ pl = NoPayload
    /\ plan = <<>>
    /\ srv = <<>>
    /\ sver = <<>>
    /\ mig = <<>>
    /\ wnow = 0
    /\ pty = <<>>
    /\ wbuf = <<>>
    /\ snd = <<>>
    /\ sess = <<>>
    /\ rd = <<>>
    /\ ctx = <<>>
    /\ sstate = <<>>
    /\ tailf = <<>>
    /\ ec = <<>>
    /\ tools = <<>>
    /\ kindex = {}
    /\ launched = 0
    /\ tl = <<>>
    /\ cinbox = <<>>
    /\ hk = <<>>
    /\ orch = <<>>
    /\ marker = None
    /\ inj = <<>>
    /\ mIn = <<>>
    /\ mOut = <<>>
    /\ clock = 0
    /\ jobs = <<>>
    /\ inbox = <<>>
    /\ cons = <<>>

\* main for an event that names a session and a tool outside the skip list:
\* the payload is built and, when the database answers, inserted as a
\* tool_use job
EnqueueToolUse(tool_input, tool_response, db) ==
    /\ pl = NoPayload
    /\ pl' = [script |-> "on_tool_use", tool_input |-> tool_input,
              tool_response |-> tool_response,
              payload |-> [tool_input |-> Truncated(tool_input),
                           tool_response |-> Truncated(tool_response)],
              enqueued |-> db]
    /\ UNCHANGED uOthers

\* the hook process exits
HookExit ==
    /\ pl # NoPayload
    /\ pl' = NoPayload
    /\ UNCHANGED uOthers

PayloadNext ==
    \/ \E tool_input \in ToolInputs, tool_response \in ToolResponses,
          db \in BOOLEAN : EnqueueToolUse(tool_input, tool_response, db)
    \/ HookExit

SpecPayload == PayloadInit /\ [][PayloadNext]_vars

IsEnvelope(x) == "_truncated" \in DOMAIN x
\* what became of a value in the payload, with a preview of limit characters
Enveloped(value, sent, limit) ==
    IF value.size > MAX_RESPONSE_CHARS
    THEN /\ IsEnvelope(sent)
         /\ sent._truncated
         /\ sent._preview.of = value.name
         /\ sent._preview.len = limit
         /\ sent._length = value.size
    ELSE sent = value

\* C29 (as stated): the preview is the first 4000 characters
C29_PreviewOfLimit ==
    pl.script = "on_tool_use"
    => /\ Enveloped(pl.tool_input, pl.payload.tool_input, MAX_RESPONSE_CHARS)
       /\ Enveloped(pl.tool_response, pl.payload.tool_response,
                    MAX_RESPONSE_CHARS)

\* C29 (amended): a tool_input or tool_response whose JSON text is longer
\* than 4000 characters is replaced by an envelope whose _preview is the
\* first 2000 characters of that text and whose _length is its full length;
\* a value of at most 4000 characters goes into the payload unchanged
C29_PreviewOfHalf ==
    pl.script = "on_tool_use"
    => /\ Enveloped(pl.tool_input, pl.payload.tool_input,
                    MAX_RESPONSE_CHARS \div 2)
       /\ Enveloped(pl.tool_response, pl.payload.tool_response,
                    MAX_RESPONSE_CHARS \div 2)

\* a job was enqueued with a response of 4001 characters in an envelope and
\* an input of 4000 characters as it was
C29_Witness ==
    /\ pl.script = "on_tool_use"
    /\ pl.enqueued
    /\ pl.tool_response.size = MAX_RESPONSE_CHARS + 1
    /\ IsEnvelope(pl.payload.tool_response)
    /\ pl.tool_input.size = MAX_RESPONSE_CHARS
    /\ pl.payload.tool_input = pl.tool_input

(***************************************************************************)
(* The session supervisor as a whole (mcp/session_controller.py): the      *)
(* registry `sessions`, the children behind the pseudo-terminals, one      *)
(* reader thread per session and the tool calls, which the server runs one *)
(* at a time.  sessions[id] is the session object (listed while the        *)
(* registry holds it), child[id] the child process, reader[id] the         *)
(* position of _reader_thread, call the tool call in progress or the last  *)
(* one made, snow the clock.  A buffer is the sequence of the chunks       *)
(* stored in it; of the envelopes a call returns, the kind is kept and,    *)
(* for a call that waited, the chunks of its response (what session_read   *)
(* returns is the subject of SpecReader).                                  *)
(***************************************************************************)
\* sessions started, chunks the children print, messages the sessions are
\* sent, ticks of the clock
MaxSessions == 1
MaxOut == 2
MaxSends == 1
MaxNow == 1

\* str(uuid.uuid4())[:8]
SIds == {"a", "b"}

Escalation == <<"sendintr", "terminate", "kill">>

NoSessionObject ==
    [made |-> FALSE, listed |-> FALSE, buffer |-> <<>>, lock |-> "free",
     alive |-> FALSE, last_data_time |-> 0, messages_sent |-> 0]
\* the dictionary do_session_start stores in the registry
NewSession(now) ==
    [made |-> TRUE, listed |-> TRUE, buffer |-> <<>>, lock |-> "free",
     alive |-> TRUE, last_data_time |-> now, messages_sent |-> 0]

NoChild == [state |-> "unborn", printed |-> 0]
NoReader == [pc |-> "none", data |-> <<>>]

\* the call before any was made, and a call that has returned
NoToolCall ==
    [pc |-> "done", op |-> "none", id |-> None, signals |-> <<>>,
     start_pos |-> 0, result |-> "none", out |-> <<>>]
Returned(op, id, result, out) ==
    [NoToolCall EXCEPT !.op = op, !.id = id, !.result = result, !.out = out]

RECURSIVE Sum(_, _)
Sum(f, S) ==
    IF S = {} THEN 0
    ELSE LET x == CHOOSE y \in S : TRUE IN f[x] + Sum(f, S \ {x})
Printed == Sum([id \in SIds |-> child[id].printed], SIds)
Sent == Sum([id \in SIds |-> sessions[id].messages_sent], SIds)
Started == Cardinality({id \in SIds : child[id].state # "unborn"})

\* sess = sessions.get(session_id); if not sess: return {"error": ...}
Listed(id) == sessions[id].listed
\* proc.isalive()
IsAlive(id) == child[id].state = "running"

\* the registry left as it was
RemovedNever(s, id) == s
\* del sessions[session_id]
Removed(s, id) == [s EXCEPT ![id].listed = FALSE]

\* the buffer replaced by the data
StoredOver(sess_obj, data, now) ==
    [sess_obj EXCEPT !.buffer = data, !.last_data_time = now]
\* sess["buffer"] += data; sess["last_data_time"] = time.time()
Stored(sess_obj, data, now) ==
    [sess_obj EXCEPT !.buffer = @ \o data, !.last_data_time = now]

\* buffer[start_pos:], in chunks
From(buffer, start_pos) == SubSeq(buffer, start_pos + 1, Len(buffer))

SessionInit ==
    /\ ks = <<>>
    /\ sessions = [id \in SIds |-> NoSessionObject]
    /\ child = [id \in SIds |-> NoChild]
    /\ reader = [id \in SIds |-> NoReader]
    /\ call = NoToolCall
    /\ snow = 0
    /\ pl = <<>>
    /\ plan = <<>>
    /\ srv = <<>>
    /\ sver = <<>>
    /\ mig = <<>>
    /\ wnow = 0
    /\ pty = <<>>
    /\ wbuf = <<>>
    /\ snd = <<>>
    /\ sess = <<>>
    /\ rd = <<>>
    /\ ctx = <<>>
    /\ sstate = <<>>
    /\ tailf = <<>>
    /\ ec = <<>>
    /\ tools = <<>>
    /\ kindex = {}
    /\ launched = 0
    /\ tl = <<>>
    /\ cinbox = <<>>
    /\ hk = <<>>
    /\ orch = <<>>
    /\ marker = None
    /\ inj = <<>>
    /\ mIn = <<>>
    /\ mOut = <<>>
    /\ clock = 0
    /\ jobs = <<>>
    /\ inbox = <<>>
    /\ cons = <<>>

\* time passes
SessionTick ==
    /\ snow < MaxNow
    /\ snow' = snow + 1
    /\ UNCHANGED <<sessions, child, reader, call, yOthers>>

\* the child ends, by itself or because of a signal it was sent
ChildExit(id) ==
    /\ IsAlive(id)
    /\ child' = [child EXCEPT ![id].state = "gone"]
    /\ UNCHANGED <<sessions, reader, call, snow, yOthers>>

\* _reader_thread: while sess["alive"]
ReaderLoop(id) ==
    /\ reader[id].pc = "loop"
    /\ reader' = [reader EXCEPT
                    ![id].pc = IF sessions[id].alive THEN "read" ELSE "exit"]
    /\ UNCHANGED <<sessions, child, call, snow, yOthers>>

\* data = proc.read(4096): the next chunk the child prints
ReaderTake(id) ==
    /\ reader[id].pc = "read"
    /\ IsAlive(id)
    /\ Printed < MaxOut
    /\ child' = [child EXCEPT ![id].printed = @ + 1]
    /\ reader' = [reader EXCEPT ![id].pc = "got",
                                ![id].data = <<Printed + 1>>]
    /\ UNCHANGED <<sessions, call, snow, yOthers>>

\* with sess["lock"]: the reader takes the mutex
ReaderAcquire(id) ==
    /\ reader[id].pc = "got"
    /\ sessions[id].lock = "free"
    /\ sessions' = [sessions EXCEPT ![id].lock = "reader"]
    /\ reader' = [reader EXCEPT ![id].pc = "locked"]
    /\ UNCHANGED <<child, call, snow, yOthers>>

\* the data is appended, last_data_time is set, the mutex is released
ReaderStore(id) ==
    /\ reader[id].pc = "locked"
    /\ sessions' = [sessions EXCEPT
                      ![id] = [Stored(@, reader[id].data, snow)
                                 EXCEPT !.lock = "free"]]
    /\ reader' = [reader EXCEPT ![id] = [pc |-> "loop", data |-> <<>>]]
    /\ UNCHANGED <<child, call, snow, yOthers>>

\* except EOFError: sess["alive"] = False; break
ReaderEnd(id) ==
    /\ reader[id].pc = "read"
    /\ ~IsAlive(id)
    /\ sessions' = [sessions EXCEPT ![id].alive = FALSE]
    /\ reader' = [reader EXCEPT ![id].pc = "exit"]
    /\ UNCHANGED <<child, call, snow, yOthers>>

\* do_session_start: a failure to spawn, or the session registered with its
\* reader thread started; with wait, _wait_for_idle follows
do_session_start(id, spawned, wait) ==
    /\ call.pc = "done"
    /\ child[id].state = "unborn"
    /\ Started < MaxSessions
    /\ IF ~spawned
       THEN /\ call' = Returned("session_start", None, "error", <<>>)
            /\ UNCHANGED <<sessions, child, reader>>
       ELSE /\ sessions' = [sessions EXCEPT ![id] = NewSession(snow)]
            /\ child' = [child EXCEPT ![id].state = "running"]
            /\ reader' = [reader EXCEPT ![id].pc = "loop"]
            /\ call' = [Returned("session_start", id, "started", <<>>)
                          EXCEPT !.pc = IF wait THEN "wait" ELSE "done"]
    /\ UNCHANGED <<snow, yOthers>>

\* do_session_send and do_session_send_keys have the same frame: the
\* look-up, the test of alive, last_data_time set under the mutex, the
\* writes to the pseudo-terminal, messages_sent and, with wait,
\* _wait_for_idle
SendFrame(op, id, written, wait) ==
    /\ call.pc = "done"
    /\ IF ~Listed(id)
       THEN /\ call' = Returned(op, id, "not_found", <<>>)
            /\ UNCHANGED sessions
       ELSE IF ~sessions[id].alive
       THEN /\ call' = Returned(op, id, "dead", <<>>)
            /\ UNCHANGED sessions
       ELSE /\ sessions[id].lock = "free"
            /\ Sent < MaxSends
            /\ IF ~written
               THEN /\ sessions' = [sessions EXCEPT
                                      ![id].last_data_time = snow]
                    /\ call' = Returned(op, id, "error", <<>>)
               ELSE /\ sessions' = [sessions EXCEPT
                                      ![id].last_data_time = snow,
                                      ![id].messages_sent = @ + 1]
                    /\ call' = [Returned(op, id, "sent", <<>>)
                                  EXCEPT !.pc = IF wait THEN "wait"
                                                ELSE "done"]
    /\ UNCHANGED <<child, reader, snow, yOthers>>

do_session_send(id, written, wait) ==
    SendFrame("session_send", id, written, wait)

do_session_send_keys(id, written, wait) ==
    SendFrame("session_send_keys", id, written, wait)

\* _wait_for_idle: start_pos = len(sess["buffer"]), under the mutex
WaitMark ==
    /\ call.pc = "wait"
    /\ sessions[call.id].lock = "free"
    /\ call' = [call EXCEPT !.pc = "polling",
                            !.start_pos = Len(sessions[call.id].buffer)]
    /\ UNCHANGED <<sessions, child, reader, snow, yOthers>>

\* _wait_for_idle: the loop is left and buffer[start_pos:] is returned
WaitReturn ==
    /\ call.pc = "polling"
    /\ sessions[call.id].lock = "free"
    /\ call' = [call EXCEPT !.pc = "done",
                            !.out = From(sessions[call.id].buffer,
                                         call.start_pos)]
    /\ UNCHANGED <<sessions, child, reader, snow, yOthers>>

\* do_session_read
do_session_read(id) ==
    /\ call.pc = "done"
    /\ IF ~Listed(id)
       THEN call' = Returned("session_read", id, "not_found", <<>>)
       ELSE /\ sessions[id].lock = "free"
            /\ call' = Returned("session_read", id, "read", <<>>)
    /\ UNCHANGED <<sessions, child, reader, snow, yOthers>>

\* do_session_status
do_session_status(id) ==
    /\ call.pc = "done"
    /\ IF ~Listed(id)
       THEN call' = Returned("session_status", id, "not_found", <<>>)
       ELSE /\ sessions[id].lock = "free"
            /\ call' = Returned("session_status", id, "status", <<>>)
    /\ UNCHANGED <<sessions, child, reader, snow, yOthers>>

\* one signal of do_session_stop: sent when the child is alive and the call
\* does not raise; after it the call sleeps (next) or goes on to the
\* snapshot
Signal(c, id, name, raised, next) ==
    IF ~IsAlive(id) THEN [c EXCEPT !.pc = next]
    ELSE IF raised THEN [c EXCEPT !.pc = "snapshot"]
    ELSE [c EXCEPT !.pc = next, !.signals = Append(@, name)]

\* do_session_stop up to the first sleep: the look-up, alive = False and
\* the interrupt
do_session_stop(id, raised) ==
    /\ call.pc = "done"
    /\ IF ~Listed(id)
       THEN /\ call' = Returned("session_stop", id, "not_found", <<>>)
            /\ UNCHANGED sessions
       ELSE /\ sessions' = [sessions EXCEPT ![id].alive = FALSE]
            /\ call' = Signal([Returned("session_stop", id, "none", <<>>)
                                 EXCEPT !.pc = "stopping"],
                              id, "sendintr", raised,
                              IF IsAlive(id) THEN "interrupted"
                              ELSE "snapshot")
    /\ UNCHANGED <<child, reader, snow, yOthers>>

\* after the first sleep: terminate if the child is still alive
StopTerminate(raised) ==
    /\ call.pc = "interrupted"
    /\ call' = Signal(call, call.id, "terminate", raised, "terminated")
    /\ UNCHANGED <<sessions, child, reader, snow, yOthers>>

\* after the second sleep, or at once when terminate was not called: kill
\* if the child is still alive, which ends it
StopKill(raised) ==
    /\ call.pc = "terminated"
    /\ call' = Signal(call, call.id, "kill", raised, "snapshot")
    /\ child' = IF IsAlive(call.id) /\ ~raised
                THEN [child EXCEPT ![call.id].state = "gone"]
                ELSE child
    /\ UNCHANGED <<sessions, reader, snow, yOthers>>

\* final_output under the mutex, del sessions[session_id], the envelope
StopFinish ==
    /\ call.pc = "snapshot"
    /\ sessions[call.id].lock = "free"
    /\ sessions' = Removed(sessions, call.id)
    /\ call' = [call EXCEPT !.pc = "done", !.result = "stopped"]
    /\ UNCHANGED <<child, reader, snow, yOthers>>

StopStep ==
    \/ \E raised \in BOOLEAN : StopTerminate(raised)
    \/ \E raised \in BOOLEAN : StopKill(raised)
    \/ StopFinish

SessionNext ==
    \/ SessionTick
    \/ \E id \in SIds : ChildExit(id)
    \/ \E id \in SIds : ReaderLoop(id)
    \/ \E id \in SIds : ReaderTake(id)
    \/ \E id \in SIds : ReaderAcquire(id)
    \/ \E id \in SIds : ReaderStore(id)
    \/ \E id \in SIds : ReaderEnd(id)
    \/ \E id \in SIds, spawned, wait \in BOOLEAN :
          do_session_start(id, spawned, wait)
    \/ \E id \in SIds, written, wait \in BOOLEAN :
          do_session_send(id, written, wait)
    \/ \E id \in SIds, written, wait \in BOOLEAN :
          do_session_send_keys(id, written, wait)
    \/ WaitMark
    \/ WaitReturn
    \/ \E id \in SIds : do_session_read(id)
    \/ \E id \in SIds : do_session_status(id)
    \/ \E id \in SIds, raised \in BOOLEAN : do_session_stop(id, raised)
    \/ \E raised \in BOOLEAN : StopTerminate(raised)
    \/ \E raised \in BOOLEAN : StopKill(raised)
    \/ StopFinish

\* the thread that runs the call goes on, and a reader that holds the mutex
\* releases it
SpecSession ==
    /\ SessionInit
    /\ [][SessionNext]_vars
    /\ WF_vars(StopStep)
    /\ \A id \in SIds : WF_vars(ReaderStore(id))

\* the session of id was started and is no longer in the registry
Gone(id) == id \in SIds /\ sessions[id].made /\ ~sessions[id].listed
SessionOps == {"session_send", "session_send_keys", "session_read",
               "session_status", "session_stop"}
IsPrefix(s, t) == Len(s) <= Len(t) /\ s = SubSeq(t, 1, Len(s))
\* the signals the call had sent before this step
SentBefore == IF call.pc = "done" THEN <<>> ELSE call.signals
Stopping == call.op = "session_stop" /\ call.pc # "done"

\* C31: session_stop sends interrupt, terminate and kill in that order, each
\* one only while the child is alive; a stop that has found its session
\* always ends with the session out of the registry, where it stays; and
\* every later session_send, session_send_keys, session_read, session_status
\* and session_stop on that id returns the not-found envelope
C31_StopEscalation ==
    /\ [][(call' # call /\ call'.signals # SentBefore)
          => /\ IsAlive(call'.id)
             /\ Len(call'.signals) = Len(SentBefore) + 1
             /\ IsPrefix(call'.signals, Escalation)]_vars
    /\ [][Stopping /\ call'.pc = "done"
          => call'.result = "stopped" /\ Gone(call.id)']_vars
    /\ [][\A id \in SIds : Gone(id) => Gone(id)']_vars
    /\ [][(call.pc = "done" /\ call' # call /\ call'.op \in SessionOps
             /\ Gone(call'.id))
          => call'.pc = "done" /\ call'.result = "not_found"]_vars
    /\ (Stopping ~> (call.pc = "done" /\ Gone(call.id)))

\* a stop that went through the whole escalation and removed its session
C31_Witness ==
    /\ call.op = "session_stop"
    /\ call.pc = "done"
    /\ call.result = "stopped"
    /\ call.signals = Escalation
    /\ Gone(call.id)

\* C33: the buffer of a session only grows at its end: whenever it changes,
\* the old value is a prefix of the new one, the step is the reader thread's
\* store made while that thread holds the session's mutex, and
\* last_data_time is set to the time of the store, never to an earlier time
\* than it held
C33_AppendOnly ==
    [][\A id \in SIds :
          sessions'[id].buffer # sessions[id].buffer
          => /\ IsPrefix(sessions[id].buffer, sessions'[id].buffer)
             /\ sessions[id].lock = "reader"
             /\ reader[id].pc = "locked"
             /\ reader'[id].pc = "loop"
             /\ sessions'[id].buffer = sessions[id].buffer \o reader[id].data
             /\ sessions'[id].last_data_time = snow
             /\ sessions'[id].last_data_time >= sessions[id].last_data_time
             /\ call' = call]_vars

\* a session_send that waited returned the second chunk of a buffer of two,
\* the first having been stored before the wait began
C33_Witness ==
    /\ call.op = "session_send"
    /\ call.pc = "done"
    /\ call.id \in SIds
    /\ call.out = <<2>>
    /\ sessions[call.id].buffer = <<1, 2>>
    /\ sessions[call.id].last_data_time = MaxNow

(***************************************************************************)
(* Key translation (mcp/session_controller.py KEY_MAP and the loop of      *)
(* do_session_send_keys).  A key is the sequence of its characters, what   *)
(* is written to the pseudo-terminal a sequence of byte values; ks is the  *)
(* last call: its keys, the writes it made in order and the list `sent`.   *)
(***************************************************************************)
\* keys in one call
MaxKeys == 2

Letters == <<"a", "b", "c", "d", "e", "f", "g", "h", "i", "j", "k", "l", "m",
             "n", "o", "p", "q", "r", "s", "t", "u", "v", "w", "x", "y", "z">>
Capitals == <<"A", "B", "C", "D", "E", "F", "G", "H", "I", "J", "K", "L",
              "M", "N", "O", "P", "Q", "R", "S", "T", "U", "V", "W", "X",
              "Y", "Z">>
WhiteSpace == {" ", "\t", "\n", "\r"}

\* ord(c) of the characters used
Ord(c) ==
    IF \E i \in 1..26 : Letters[i] = c
    THEN 96 + (CHOOSE i \in 1..26 : Letters[i] = c)
    ELSE IF \E i \in 1..26 : Capitals[i] = c
    THEN 64 + (CHOOSE i \in 1..26 : Capitals[i] = c)
    ELSE CASE c = " " -> 32 [] c = "\t" -> 9 [] c = "\n" -> 10
           [] c = "\r" -> 13 [] c = "+" -> 43 [] c = "1" -> 49
\* the bytes of a text
Encode(text) == [i \in 1..Len(text) |-> Ord(text[i])]

\* str.lower()
LowerChar(c) ==
    IF \E i \in 1..26 : Capitals[i] = c
    THEN Letters[CHOOSE i \in 1..26 : Capitals[i] = c]
    ELSE c
LowerKey(key) == [i \in 1..Len(key) |-> LowerChar(key[i])]

\* str.strip()
RECURSIVE LStrip(_)
LStrip(key) ==
    IF key # <<>> /\ Head(key) \in WhiteSpace THEN LStrip(Tail(key)) ELSE key
RECURSIVE RStrip(_)
RStrip(key) ==
    IF key # <<>> /\ key[Len(key)] \in WhiteSpace
    THEN RStrip(SubSeq(key, 1, Len(key) - 1))
    ELSE key
Strip(key) == RStrip(LStrip(key))

Ctrl(letter) == <<"c", "t", "r", "l", "+", letter>>
ESC == 27

\* KEY_MAP without the Ctrl combinations
NamedKeys ==
    (<<"u", "p">> :> <<ESC, 91, 65>>)
    @@ (<<"d", "o", "w", "n">> :> <<ESC, 91, 66>>)
    @@ (<<"r", "i", "g", "h", "t">> :> <<ESC, 91, 67>>)
    @@ (<<"l", "e", "f", "t">> :> <<ESC, 91, 68>>)
    @@ (<<"e", "n", "t", "e", "r">> :> <<13>>)
    @@ (<<"r", "e", "t", "u", "r", "n">> :> <<13>>)
    @@ (<<"e", "s", "c", "a", "p", "e">> :> <<ESC>>)
    @@ (<<"e", "s", "c">> :> <<ESC>>)
    @@ (<<"t", "a", "b">> :> <<9>>)
    @@ (<<"b", "a", "c", "k", "s", "p", "a", "c", "e">> :> <<127>>)
    @@ (<<"d", "e", "l", "e", "t", "e">> :> <<ESC, 91, 51, 126>>)
    @@ (<<"h", "o", "m", "e">> :> <<ESC, 91, 72>>)
    @@ (<<"e", "n", "d">> :> <<ESC, 91, 70>>)
    @@ (<<"p", "a", "g", "e", "u", "p">> :> <<ESC, 91, 53, 126>>)
    @@ (<<"p", "a", "g", "e", "d", "o", "w", "n">> :> <<ESC, 91, 54, 126>>)
    @@ (<<"s", "p", "a", "c", "e">> :> <<32>>)

\* the letters that have a "ctrl+" entry in KEY_MAP
CtrlLetters == {"a", "b", "c", "d", "e", "f", "g", "h", "k", "l", "n", "o",
                "p", "r", "s", "t", "u", "w", "z"}
\* "ctrl+c": "\x03" and the like
CtrlKeys ==
    [k \in {Ctrl(l) : l \in CtrlLetters} |-> <<Ord(k[6]) - 96>>]

KEY_MAP == NamedKeys @@ CtrlKeys

\* the keys of the calls: every name of the table, "ctrl+" with every
\* letter, names in capitals or between blanks, and other texts
OtherKeys == {<<"E", "n", "t", "e", "r">>, <<" ", "t", "a", "b", "\n">>,
              <<"C", "t", "r", "l", "+", "C">>, <<"h", "i">>, <<"y">>,
              <<" ">>, Ctrl("1"), <<"U", "p", " ", "1">>}
KeyInputs ==
    DOMAIN NamedKeys \cup {Ctrl(Letters[i]) : i \in 1..26} \cup OtherKeys
KeyLists ==
    UNION {[1..n -> KeyInputs] : n \in 1..MaxKeys}

NoKeys == [pc |-> "idle", keys |-> <<>>, written |-> <<>>, sent |-> <<>>,
           result |-> "none"]

\* one pass of the loop: proc.write and sent.append
KeyStep(key) ==
    LET key_lower == Strip(LowerKey(key))
    IN  IF key_lower \in DOMAIN KEY_MAP
        THEN [write |-> KEY_MAP[key_lower],
              sent |-> <<"[">> \o key \o <<"]">>]
        ELSE [write |-> Encode(key), sent |-> key]

KeysInit ==
    /\ ks = NoKeys
    /\ sessions = <<>>
    /\ child = <<>>
    /\ reader = <<>>
    /\ call = <<>>
    /\ snow = 0
    /\ pl = <<>>
    /\ plan = <<>>
    /\ srv = <<>>
    /\ sver = <<>>
    /\ mig = <<>>
    /\ wnow = 0
    /\ pty = <<>>
    /\ wbuf = <<>>
    /\ snd = <<>>
    /\ sess = <<>>
    /\ rd = <<>>
    /\ ctx = <<>>
    /\ sstate = <<>>
    /\ tailf = <<>>
    /\ ec = <<>>
    /\ tools = <<>>
    /\ kindex = {}
    /\ launched = 0
    /\ tl = <<>>
    /\ cinbox = <<>>
    /\ hk = <<>>
    /\ orch = <<>>
    /\ marker = None
    /\ inj = <<>>
    /\ mIn = <<>>
    /\ mOut = <<>>
    /\ clock = 0
    /\ jobs = <<>>
    /\ inbox = <<>>
    /\ cons = <<>>

\* the loop of do_session_send_keys over keys; the write number broken
\* raises (0: none does), which ends the call with the error envelope
SendKeys(keys, broken) ==
    /\ ks.pc = "idle"
    /\ broken <= Len(keys)
    /\ LET n == IF broken = 0 THEN Len(keys) ELSE broken - 1
       IN  ks' = [pc |-> "done", keys |-> keys,
                  written |-> [i \in 1..n |-> KeyStep(keys[i]).write],
                  sent |-> [i \in 1..n |-> KeyStep(keys[i]).sent],
                  result |-> IF broken = 0 THEN "keys_sent" ELSE "error"]
    /\ UNCHANGED nOthers

\* the call returns
KeysReturn ==
    /\ ks.pc = "done"
    /\ ks' = NoKeys
    /\ UNCHANGED nOthers

KeysNext ==
    \/ \E keys \in KeyLists, broken \in 0..MaxKeys :
          SendKeys(keys, broken)
    \/ KeysReturn

SpecKeys == KeysInit /\ [][KeysNext]_vars

\* the table of the statement: the named keys, and "ctrl+" with the n-th
\* letter for byte n
StatedTable ==
    NamedKeys @@ [k \in {Ctrl(Letters[i]) : i \in 1..26} |-> <<Ord(k[6]) - 96>>]
Translation(key) ==
    LET name == Strip(LowerKey(key))
    IN  IF name \in DOMAIN StatedTable THEN StatedTable[name]
        ELSE Encode(key)

\* C32: a call of sendKeys that wrote all its keys wrote, in the order of
\* the keys, the sequence of the table for every key that names an entry
\* of it (ctrl+<n-th letter> giving byte n for each of the 26 letters) and
\* the text itself for every other key
C32_KeyTranslation ==
    (ks.pc = "done" /\ ks.result = "keys_sent")
    => /\ Len(ks.written) = Len(ks.keys)
       /\ \A i \in 1..Len(ks.keys) : ks.written[i] = Translation(ks.keys[i])

\* ---------------------------------------------------------------------------
\* Concurrent consumers of retrieval_inbox (on_prompt_submit.py,
\* aidam_mcp_server.py): up to MaxCallers calls run at the same time, each in
\* its own process with its own connection, over a table that may hold a reply
\* to an earlier job, while the retrievers answer the first call's job; any
\* statement of a call may raise a database error. The clock stands still
\* while the calls run.
\* ---------------------------------------------------------------------------

\* at most MaxCallers of the callers are started
MaxCallers == 2

\* two UserPromptSubmit hook processes and the aidam_retrieve handler
Hooks == {"hook", "hook2"}
Callers == Hooks \cup {"mcp"}

\* the calls that are followed come from one session and carry one prompt
Session == "B"
Prompt == "continue"

\* a reply to the earlier job that is in the table when the calls start:
\* written long ago (and expired by now) or just now
StoredRow(id, kind, created) ==
    [status |-> "pending", session |-> Session, hash |-> PromptHash(Prompt),
     ctype |-> ReplyType(kind), text |-> ReplyText(id, kind),
     created_at |-> created, expires_at |-> created + TTL, job |-> id[1]]

StoredRows(id, now) ==
    {NoRow} \cup {StoredRow(id, kind, created) :
                     kind \in {"none", "memory"}, created \in {0, now}}

InboxInit ==
    /\ ks = <<>>
    /\ sessions = <<>>
    /\ child = <<>>
    /\ reader = <<>>
    /\ call = <<>>
    /\ snow = 0
    /\ pl = <<>>
    /\ plan = <<>>
    /\ srv = <<>>
    /\ sver = <<>>
    /\ mig = <<>>
    /\ wnow = 0
    /\ pty = <<>>
    /\ wbuf = <<>>
    /\ snd = <<>>
    /\ sess = <<>>
    /\ rd = <<>>
    /\ ctx = <<>>
    /\ sstate = <<>>
    /\ tailf = <<>>
    /\ ec = <<>>
    /\ tools = <<>>
    /\ kindex = {}
    /\ launched = 0
    /\ tl = <<>>
    /\ cinbox = <<>>
    /\ hk = <<>>
    /\ marker = None
    /\ inj = <<>>
    /\ mIn = <<>>
    /\ mOut = <<>>
    /\ orch = [r \in Rows |->
                  [status |-> "running", started_at |-> 1,
                   last_heartbeat_at |-> IF r = "A" THEN 1 ELSE 2]]
    /\ clock = TTL + 1
    /\ jobs = <<[session |-> Session, hash |-> PromptHash(Prompt), at |-> 0]>>
    /\ \E stored \in StoredRows(<<1, 1>>, TTL + 1) :
          inbox = [r \in RowIds |-> IF r = <<1, 1>> THEN stored ELSE NoRow]
    /\ cons = [c \in Callers |-> ConsIdle]

Running == Cardinality({c \in Callers : cons[c].pc # "idle"})

\* UserPromptSubmit in process c: stdin is read, the hash computed and the
\* prompt_context job inserted into cognitive_inbox
Submit(c, session, prompt) ==
    /\ cons[c].pc = "idle"
    /\ Running < MaxCallers
    /\ jobs' = Append(jobs, [session |-> session, hash |-> PromptHash(prompt),
                             at |-> clock])
    /\ cons' = [cons EXCEPT ![c] =
                   [ConsIdle EXCEPT !.pc = "cleanup", !.session = session,
                                    !.hash = PromptHash(prompt),
                                    !.job = Len(jobs) + 1]]
    /\ UNCHANGED <<xvars, hvars, mvars, clock, inbox>>

\* cur.execute("SELECT cleanup_expired_retrieval()"); conn.commit()
Cleanup(c) ==
    /\ cons[c].pc = "cleanup"
    /\ inbox' = CleanupExpired(inbox, clock)
    /\ cons' = [cons EXCEPT ![c].pc = "late"]
    /\ UNCHANGED <<xvars, hvars, mvars, clock, jobs>>

\* the late-arrival SELECT returned a row
LateFound(c) ==
    /\ cons[c].pc = "late"
    /\ \E r \in LatestCreated(inbox, LateCandidates(inbox, cons[c].session, clock)) :
          cons' = [cons EXCEPT ![c].pc = "lateMark", ![c].late = r]
    /\ UNCHANGED <<xvars, hvars, mvars, clock, jobs, inbox>>

\* the late-arrival SELECT returned nothing: the poll loop starts
LateNone(c) ==
    /\ cons[c].pc = "late"
    /\ LateCandidates(inbox, cons[c].session, clock) = {}
    /\ cons' = [cons EXCEPT ![c].pc = "poll"]
    /\ UNCHANGED <<xvars, hvars, mvars, clock, jobs, inbox>>

\* the late row is marked delivered and its text printed as additionalContext
LateMark(c) ==
    /\ cons[c].pc = "lateMark"
    /\ inbox' = MarkDelivered(inbox, cons[c].late)
    /\ cons' = [cons EXCEPT ![c].pc = "done",
                            ![c].out = [kind |-> "context",
                                        text |-> inbox[cons[c].late].text]]
    /\ UNCHANGED <<xvars, hvars, mvars, clock, jobs>>

\* execute_query(query, params, fetch=True): the statement runs, the rows are
\* returned before conn.commit() is reached and the connection is closed, so
\* whatever the statement changed is rolled back
execute_query(inb, changed) == inb

\* select_query(sql): execute_query(sql, params) with fetch left at True
select_query(inb, changed) == execute_query(inb, changed)

\* aidam_retrieve: the job is inserted for the running orchestrator's session,
\* then mem.select_query("SELECT cleanup_expired_retrieval()")
Retrieve(prompt) ==
    /\ cons["mcp"].pc = "idle"
    /\ Running < MaxCallers
    /\ \E session \in FindRunning(orch) :
          /\ jobs' = Append(jobs, [session |-> session,
                                   hash |-> PromptHash(prompt), at |-> clock])
          /\ cons' = [cons EXCEPT !["mcp"] =
                         [ConsIdle EXCEPT !.pc = "poll", !.session = session,
                                          !.hash = PromptHash(prompt),
                                          !.job = Len(jobs) + 1]]
    /\ inbox' = select_query(inbox, CleanupExpired(inbox, clock))
    /\ UNCHANGED <<xvars, hvars, mvars, clock>>

\* the next statement of call c raises: the hook falls into
\* `except Exception: pass` and prints nothing, aidam_retrieve's exception is
\* turned into an "Error: ..." text by call_tool; what was committed stays
\* (of the call's variables only the list of collected rows is kept here)
Raise(c) ==
    /\ cons[c].pc \in {"cleanup", "late", "lateMark", "poll", "mark"}
    /\ cons' = [cons EXCEPT ![c] =
                   [ConsIdle EXCEPT !.pc = "done",
                                    !.session = cons[c].session,
                                    !.hash = cons[c].hash,
                                    !.results = cons[c].results,
                                    !.out = IF c \in Hooks THEN NoOut
                                            ELSE [kind |-> "error", text |-> <<>>]]]
    /\ UNCHANGED <<xvars, hvars, mvars, clock, jobs, inbox>>

\* a retriever answers the first call's job while that call is the only one
\* running (a call that starts later finds the row in the table)
Arrive(k, kind) ==
    /\ Running = 1
    /\ RetrieverReply(2, k, kind, clock)

InboxNext ==
    \/ \E k \in Retrievers, kind \in {"none", "memory"} : Arrive(k, kind)
    \/ \E c \in Hooks : Submit(c, Session, Prompt)
    \/ \E c \in Hooks : Cleanup(c)
    \/ \E c \in Hooks : LateFound(c)
    \/ \E c \in Hooks : LateNone(c)
    \/ \E c \in Hooks : LateMark(c)
    \/ Retrieve(Prompt)
    \/ \E c \in Callers : PollFetch(c)
    \/ \E c \in Callers : PollMark(c)
    \/ \E c \in Callers : Raise(c)

SpecInbox == InboxInit /\ [][InboxNext]_vars

\* ---------------------------------------------------------------------------
\* Properties of concurrent and failing consumers
\* ---------------------------------------------------------------------------

\* the step in which call c executes its cleanup statement
CleanupStep(c) ==
    IF c \in Hooks
    THEN cons[c].pc = "cleanup" /\ cons'[c].pc = "late"
    ELSE cons[c].pc = "idle" /\ cons'[c].pc = "poll"

\* C37: after the cleanup step of the UserPromptSubmit hook and after the
\* cleanup step of aidam_retrieve alike, retrieval_inbox is what
\* cleanup_expired_retrieval() makes of the table the step started from.
C37_CleanupDurable ==
    [][\A c \in Callers :
          CleanupStep(c) => inbox' = CleanupExpired(inbox, clock)]_vars

\* the text sub occurs in s
Occurs(s, sub) == \E i \in 1..(Len(s) - Len(sub) + 1) : MatchAt(s, sub, i)

\* the printed context carries a row's text: as it is, or with its header
\* rewritten by the merge
Shown(printed, text) ==
    \/ Occurs(printed, text)
    \/ Occurs(printed, StrReplace(text, MemHeader, AddHeader))

\* the real rows a finished call has marked delivered
MarkedReal(c) ==
    {cons[c].results[i] : i \in 1..Len(cons[c].results)}
        \cup (IF cons[c].late # NoRowId THEN {cons[c].late} ELSE {})

\* C36: a UserPromptSubmit call that has ended has printed additionalContext
\* if and only if it marked a real row delivered, and the text of every real
\* row it marked is in what it printed, database errors included.
C36_NoSilentConsumption ==
    \A c \in Hooks :
        cons[c].pc = "done" =>
            /\ cons[c].out.kind = "context" <=> MarkedReal(c) # {}
            /\ \A r \in MarkedReal(c) : Shown(cons[c].out.text, inbox[r].text)

\* the rows whose text call c has returned to its caller
Given(c) ==
    IF cons[c].pc = "done" /\ cons[c].out.kind = "context"
    THEN MarkedReal(c) ELSE {}

\* C38: the text of a retrieval_inbox row is returned by at most one of the
\* calls that run at the same time.
C38_AtMostOneConsumer ==
    \A r \in RowIds : Cardinality({c \in Callers : r \in Given(c)}) <= 1

====
